---------------------------- MODULE Spec2Model ----------------------------
(***************************************************************************)
(* Model of ipv6decode.py (efahl/tools): the allocation table, the whois   *)
(* driven augmenter add_org, and the per-address loop of __main__ with its *)
(* containment scan and its rendering (the hierarchical block list and the *)
(* bit-field diagram of --exploded).  The whois collaborator of whois.py   *)
(* is modelled as far as add_org observes it; the RDAP/RWS servers are the *)
(* environment.                                                            *)
(*                                                                         *)
(* An IPv6 address is the tuple of its eight 16-bit groups, most           *)
(* significant first.  Text is TLA+ strings.  The conversions of Python's  *)
(* ipaddress module and str.lower are tabulated over the finite set of     *)
(* texts the model can produce (ipaddress_table, lower_table); string      *)
(* comparison is tabulated as a rank (string_order).                       *)
(***************************************************************************)
EXTENDS Integers, Sequences, FiniteSets, TLC

VARIABLES
    allocations,  \* ipv6decode.allocations: the sorted list of Blocks
    cache,        \* whois._cache.cache: canonical key -> WhoIs record
    addresses,    \* args.addresses: the input strings
    idx,          \* position of the per-address loop of __main__
    pc,           \* "args" | "list" | "loop" | "lookup" | "add_org" | "scan" |
                  \* "done" | "aborted"
    address,      \* the parsed IPv6Interface of the current input
    stack,        \* the active add_org frames: their `address` arguments
    whois,        \* the result of whois_from_cache in the innermost frame
    chain,        \* blocks yielded by the scan of the current address
    exc,          \* the exception that ended the run, or "None"
    trace,        \* keys passed to whois_from_cache for the current input
    org_calls,    \* calls of add_org made by __main__ for the current input
    output,       \* what __main__ printed, one entry per input handled
    args,         \* the options of the command line
    rfcs,         \* the dict add_rfc fills in __main__: RFC -> block names
    requests,     \* the URLs fetched by the latest whois_from_cache call
    proc,         \* execute.py: the call of get_status_output and its child
    lint          \* pyflaker.py: the checker and its Ignore object

vars == <<allocations, cache, addresses, idx, pc, address, stack, whois,
          chain, exc, trace, org_calls, output, args, rfcs, requests, proc,
          lint>>

\* the state of the other two programs of the repository
aside == <<proc, lint>>

\* Bounds of the model.
MaxAddrs == 2        \* longest list of input strings
RecursionLimit == 5  \* depth at which Python raises RecursionError

\* Python's None and an optional value.
None == <<>>
Some(x) == <<x>>

(***************************************************************************)
(* Tabulated data: Python's ipaddress on the texts of the model, the       *)
(* literal of `allocations`, and the fabricated RDAP registry.             *)
(***************************************************************************)
ipaddress_table ==
  "0064:ff9b:1::/48" :> [exc |-> "None", ip |-> <<100, 65435, 1, 0, 0, 0, 0, 0>>, prefixlen |-> 48,
      network_address |-> <<100, 65435, 1, 0, 0, 0, 0, 0>>, with_prefixlen |-> "64:ff9b:1::/48",
      network_with_prefixlen |-> "64:ff9b:1::/48",
      exploded |-> "0064:ff9b:0001:0000:0000:0000:0000:0000/48"] @@
  "0064:ff9b::/96" :> [exc |-> "None", ip |-> <<100, 65435, 0, 0, 0, 0, 0, 0>>, prefixlen |-> 96,
      network_address |-> <<100, 65435, 0, 0, 0, 0, 0, 0>>, with_prefixlen |-> "64:ff9b::/96",
      network_with_prefixlen |-> "64:ff9b::/96",
      exploded |-> "0064:ff9b:0000:0000:0000:0000:0000:0000/96"] @@
  "0100::/64" :> [exc |-> "None", ip |-> <<256, 0, 0, 0, 0, 0, 0, 0>>, prefixlen |-> 64,
      network_address |-> <<256, 0, 0, 0, 0, 0, 0, 0>>, with_prefixlen |-> "100::/64",
      network_with_prefixlen |-> "100::/64",
      exploded |-> "0100:0000:0000:0000:0000:0000:0000:0000/64"] @@
  "0200::/7" :> [exc |-> "None", ip |-> <<512, 0, 0, 0, 0, 0, 0, 0>>, prefixlen |-> 7,
      network_address |-> <<512, 0, 0, 0, 0, 0, 0, 0>>, with_prefixlen |-> "200::/7",
      network_with_prefixlen |-> "200::/7",
      exploded |-> "0200:0000:0000:0000:0000:0000:0000:0000/7"] @@
  "100::/64" :> [exc |-> "None", ip |-> <<256, 0, 0, 0, 0, 0, 0, 0>>, prefixlen |-> 64,
      network_address |-> <<256, 0, 0, 0, 0, 0, 0, 0>>, with_prefixlen |-> "100::/64",
      network_with_prefixlen |-> "100::/64",
      exploded |-> "0100:0000:0000:0000:0000:0000:0000:0000/64"] @@
  "2000::/3" :> [exc |-> "None", ip |-> <<8192, 0, 0, 0, 0, 0, 0, 0>>, prefixlen |-> 3,
      network_address |-> <<8192, 0, 0, 0, 0, 0, 0, 0>>, with_prefixlen |-> "2000::/3",
      network_with_prefixlen |-> "2000::/3",
      exploded |-> "2000:0000:0000:0000:0000:0000:0000:0000/3"] @@
  "2001:0db8::/32" :> [exc |-> "None", ip |-> <<8193, 3512, 0, 0, 0, 0, 0, 0>>, prefixlen |-> 32,
      network_address |-> <<8193, 3512, 0, 0, 0, 0, 0, 0>>, with_prefixlen |-> "2001:db8::/32",
      network_with_prefixlen |-> "2001:db8::/32",
      exploded |-> "2001:0db8:0000:0000:0000:0000:0000:0000/32"] @@
  "2001:1::1/128" :> [exc |-> "None", ip |-> <<8193, 1, 0, 0, 0, 0, 0, 1>>, prefixlen |-> 128,
      network_address |-> <<8193, 1, 0, 0, 0, 0, 0, 1>>, with_prefixlen |-> "2001:1::1/128",
      network_with_prefixlen |-> "2001:1::1/128",
      exploded |-> "2001:0001:0000:0000:0000:0000:0000:0001/128"] @@
  "2001:1::2/128" :> [exc |-> "None", ip |-> <<8193, 1, 0, 0, 0, 0, 0, 2>>, prefixlen |-> 128,
      network_address |-> <<8193, 1, 0, 0, 0, 0, 0, 2>>, with_prefixlen |-> "2001:1::2/128",
      network_with_prefixlen |-> "2001:1::2/128",
      exploded |-> "2001:0001:0000:0000:0000:0000:0000:0002/128"] @@
  "2001:20::/28" :> [exc |-> "None", ip |-> <<8193, 32, 0, 0, 0, 0, 0, 0>>, prefixlen |-> 28,
      network_address |-> <<8193, 32, 0, 0, 0, 0, 0, 0>>, with_prefixlen |-> "2001:20::/28",
      network_with_prefixlen |-> "2001:20::/28",
      exploded |-> "2001:0020:0000:0000:0000:0000:0000:0000/28"] @@
  "2001:2::/48" :> [exc |-> "None", ip |-> <<8193, 2, 0, 0, 0, 0, 0, 0>>, prefixlen |-> 48,
      network_address |-> <<8193, 2, 0, 0, 0, 0, 0, 0>>, with_prefixlen |-> "2001:2::/48",
      network_with_prefixlen |-> "2001:2::/48",
      exploded |-> "2001:0002:0000:0000:0000:0000:0000:0000/48"] @@
  "2001:3::/32" :> [exc |-> "None", ip |-> <<8193, 3, 0, 0, 0, 0, 0, 0>>, prefixlen |-> 32,
      network_address |-> <<8193, 3, 0, 0, 0, 0, 0, 0>>, with_prefixlen |-> "2001:3::/32",
      network_with_prefixlen |-> "2001:3::/32",
      exploded |-> "2001:0003:0000:0000:0000:0000:0000:0000/32"] @@
  "2001:4860::/32" :> [exc |-> "None", ip |-> <<8193, 18528, 0, 0, 0, 0, 0, 0>>, prefixlen |-> 32,
      network_address |-> <<8193, 18528, 0, 0, 0, 0, 0, 0>>, with_prefixlen |-> "2001:4860::/32",
      network_with_prefixlen |-> "2001:4860::/32",
      exploded |-> "2001:4860:0000:0000:0000:0000:0000:0000/32"] @@
  "2001:4:112::/48" :> [exc |-> "None", ip |-> <<8193, 4, 274, 0, 0, 0, 0, 0>>, prefixlen |-> 48,
      network_address |-> <<8193, 4, 274, 0, 0, 0, 0, 0>>, with_prefixlen |-> "2001:4:112::/48",
      network_with_prefixlen |-> "2001:4:112::/48",
      exploded |-> "2001:0004:0112:0000:0000:0000:0000:0000/48"] @@
  "2001::/23" :> [exc |-> "None", ip |-> <<8193, 0, 0, 0, 0, 0, 0, 0>>, prefixlen |-> 23,
      network_address |-> <<8193, 0, 0, 0, 0, 0, 0, 0>>, with_prefixlen |-> "2001::/23",
      network_with_prefixlen |-> "2001::/23",
      exploded |-> "2001:0000:0000:0000:0000:0000:0000:0000/23"] @@
  "2001::/32" :> [exc |-> "None", ip |-> <<8193, 0, 0, 0, 0, 0, 0, 0>>, prefixlen |-> 32,
      network_address |-> <<8193, 0, 0, 0, 0, 0, 0, 0>>, with_prefixlen |-> "2001::/32",
      network_with_prefixlen |-> "2001::/32",
      exploded |-> "2001:0000:0000:0000:0000:0000:0000:0000/32"] @@
  "2001:db8:8:4::2:1" :> [exc |-> "None", ip |-> <<8193, 3512, 8, 4, 0, 0, 2, 1>>, prefixlen |-> 128,
      network_address |-> <<8193, 3512, 8, 4, 0, 0, 2, 1>>, with_prefixlen |-> "2001:db8:8:4::2:1/128",
      network_with_prefixlen |-> "2001:db8:8:4::2:1/128",
      exploded |-> "2001:0db8:0008:0004:0000:0000:0002:0001/128"] @@
  "2001:db8:8:4::2:1/128" :> [exc |-> "None", ip |-> <<8193, 3512, 8, 4, 0, 0, 2, 1>>, prefixlen |-> 128,
      network_address |-> <<8193, 3512, 8, 4, 0, 0, 2, 1>>, with_prefixlen |-> "2001:db8:8:4::2:1/128",
      network_with_prefixlen |-> "2001:db8:8:4::2:1/128",
      exploded |-> "2001:0db8:0008:0004:0000:0000:0002:0001/128"] @@
  "2001:db8::/32" :> [exc |-> "None", ip |-> <<8193, 3512, 0, 0, 0, 0, 0, 0>>, prefixlen |-> 32,
      network_address |-> <<8193, 3512, 0, 0, 0, 0, 0, 0>>, with_prefixlen |-> "2001:db8::/32",
      network_with_prefixlen |-> "2001:db8::/32",
      exploded |-> "2001:0db8:0000:0000:0000:0000:0000:0000/32"] @@
  "2001:db8::bad/128" :> [exc |-> "None", ip |-> <<8193, 3512, 0, 0, 0, 0, 0, 2989>>, prefixlen |-> 128,
      network_address |-> <<8193, 3512, 0, 0, 0, 0, 0, 2989>>, with_prefixlen |-> "2001:db8::bad/128",
      network_with_prefixlen |-> "2001:db8::bad/128",
      exploded |-> "2001:0db8:0000:0000:0000:0000:0000:0bad/128"] @@
  "2002::/16" :> [exc |-> "None", ip |-> <<8194, 0, 0, 0, 0, 0, 0, 0>>, prefixlen |-> 16,
      network_address |-> <<8194, 0, 0, 0, 0, 0, 0, 0>>, with_prefixlen |-> "2002::/16",
      network_with_prefixlen |-> "2002::/16",
      exploded |-> "2002:0000:0000:0000:0000:0000:0000:0000/16"] @@
  "200::/7" :> [exc |-> "None", ip |-> <<512, 0, 0, 0, 0, 0, 0, 0>>, prefixlen |-> 7,
      network_address |-> <<512, 0, 0, 0, 0, 0, 0, 0>>, with_prefixlen |-> "200::/7",
      network_with_prefixlen |-> "200::/7",
      exploded |-> "0200:0000:0000:0000:0000:0000:0000:0000/7"] @@
  "2400:cb00::1" :> [exc |-> "None", ip |-> <<9216, 51968, 0, 0, 0, 0, 0, 1>>, prefixlen |-> 128,
      network_address |-> <<9216, 51968, 0, 0, 0, 0, 0, 1>>, with_prefixlen |-> "2400:cb00::1/128",
      network_with_prefixlen |-> "2400:cb00::1/128",
      exploded |-> "2400:cb00:0000:0000:0000:0000:0000:0001/128"] @@
  "2400:cb00::1/128" :> [exc |-> "None", ip |-> <<9216, 51968, 0, 0, 0, 0, 0, 1>>, prefixlen |-> 128,
      network_address |-> <<9216, 51968, 0, 0, 0, 0, 0, 1>>, with_prefixlen |-> "2400:cb00::1/128",
      network_with_prefixlen |-> "2400:cb00::1/128",
      exploded |-> "2400:cb00:0000:0000:0000:0000:0000:0001/128"] @@
  "2600:6C00::/24" :> [exc |-> "None", ip |-> <<9728, 27648, 0, 0, 0, 0, 0, 0>>, prefixlen |-> 24,
      network_address |-> <<9728, 27648, 0, 0, 0, 0, 0, 0>>, with_prefixlen |-> "2600:6c00::/24",
      network_with_prefixlen |-> "2600:6c00::/24",
      exploded |-> "2600:6c00:0000:0000:0000:0000:0000:0000/24"] @@
  "2600:6C00::1/128" :> [exc |-> "None", ip |-> <<9728, 27648, 0, 0, 0, 0, 0, 1>>, prefixlen |-> 128,
      network_address |-> <<9728, 27648, 0, 0, 0, 0, 0, 1>>, with_prefixlen |-> "2600:6c00::1/128",
      network_with_prefixlen |-> "2600:6c00::1/128",
      exploded |-> "2600:6c00:0000:0000:0000:0000:0000:0001/128"] @@
  "2600:6c00::/24" :> [exc |-> "None", ip |-> <<9728, 27648, 0, 0, 0, 0, 0, 0>>, prefixlen |-> 24,
      network_address |-> <<9728, 27648, 0, 0, 0, 0, 0, 0>>, with_prefixlen |-> "2600:6c00::/24",
      network_with_prefixlen |-> "2600:6c00::/24",
      exploded |-> "2600:6c00:0000:0000:0000:0000:0000:0000/24"] @@
  "2600:6c00::1" :> [exc |-> "None", ip |-> <<9728, 27648, 0, 0, 0, 0, 0, 1>>, prefixlen |-> 128,
      network_address |-> <<9728, 27648, 0, 0, 0, 0, 0, 1>>, with_prefixlen |-> "2600:6c00::1/128",
      network_with_prefixlen |-> "2600:6c00::1/128",
      exploded |-> "2600:6c00:0000:0000:0000:0000:0000:0001/128"] @@
  "2600:6c00::1/128" :> [exc |-> "None", ip |-> <<9728, 27648, 0, 0, 0, 0, 0, 1>>, prefixlen |-> 128,
      network_address |-> <<9728, 27648, 0, 0, 0, 0, 0, 1>>, with_prefixlen |-> "2600:6c00::1/128",
      network_with_prefixlen |-> "2600:6c00::1/128",
      exploded |-> "2600:6c00:0000:0000:0000:0000:0000:0001/128"] @@
  "2600:6c42:7003:300::/64" :> [exc |-> "None", ip |-> <<9728, 27714, 28675, 768, 0, 0, 0, 0>>, prefixlen |-> 64,
      network_address |-> <<9728, 27714, 28675, 768, 0, 0, 0, 0>>, with_prefixlen |-> "2600:6c42:7003:300::/64",
      network_with_prefixlen |-> "2600:6c42:7003:300::/64",
      exploded |-> "2600:6c42:7003:0300:0000:0000:0000:0000/64"] @@
  "2600:6c42:7600:1194::/64" :> [exc |-> "None", ip |-> <<9728, 27714, 30208, 4500, 0, 0, 0, 0>>, prefixlen |-> 64,
      network_address |-> <<9728, 27714, 30208, 4500, 0, 0, 0, 0>>, with_prefixlen |-> "2600:6c42:7600:1194::/64",
      network_with_prefixlen |-> "2600:6c42:7600:1194::/64",
      exploded |-> "2600:6c42:7600:1194:0000:0000:0000:0000/64"] @@
  "2600:8800::/28" :> [exc |-> "None", ip |-> <<9728, 34816, 0, 0, 0, 0, 0, 0>>, prefixlen |-> 28,
      network_address |-> <<9728, 34816, 0, 0, 0, 0, 0, 0>>, with_prefixlen |-> "2600:8800::/28",
      network_with_prefixlen |-> "2600:8800::/28",
      exploded |-> "2600:8800:0000:0000:0000:0000:0000:0000/28"] @@
  "2600:8802:4200:59:4c59:11ed:5359:49f6/64" :> [exc |-> "None", ip |-> <<9728, 34818, 16896, 89, 19545, 4589, 21337, 18934>>, prefixlen |-> 64,
      network_address |-> <<9728, 34818, 16896, 89, 0, 0, 0, 0>>, with_prefixlen |-> "2600:8802:4200:59:4c59:11ed:5359:49f6/64",
      network_with_prefixlen |-> "2600:8802:4200:59::/64",
      exploded |-> "2600:8802:4200:0059:4c59:11ed:5359:49f6/64"] @@
  "2600:8802:4200:59::/64" :> [exc |-> "None", ip |-> <<9728, 34818, 16896, 89, 0, 0, 0, 0>>, prefixlen |-> 64,
      network_address |-> <<9728, 34818, 16896, 89, 0, 0, 0, 0>>, with_prefixlen |-> "2600:8802:4200:59::/64",
      network_with_prefixlen |-> "2600:8802:4200:59::/64",
      exploded |-> "2600:8802:4200:0059:0000:0000:0000:0000/64"] @@
  "2600::/12" :> [exc |-> "None", ip |-> <<9728, 0, 0, 0, 0, 0, 0, 0>>, prefixlen |-> 12,
      network_address |-> <<9728, 0, 0, 0, 0, 0, 0, 0>>, with_prefixlen |-> "2600::/12",
      network_with_prefixlen |-> "2600::/12",
      exploded |-> "2600:0000:0000:0000:0000:0000:0000:0000/12"] @@
  "2620:4f:8000::/48" :> [exc |-> "None", ip |-> <<9760, 79, 32768, 0, 0, 0, 0, 0>>, prefixlen |-> 48,
      network_address |-> <<9760, 79, 32768, 0, 0, 0, 0, 0>>, with_prefixlen |-> "2620:4f:8000::/48",
      network_with_prefixlen |-> "2620:4f:8000::/48",
      exploded |-> "2620:004f:8000:0000:0000:0000:0000:0000/48"] @@
  "2620::/129" :> [exc |-> "NetmaskValueError"] @@
  "2620:fe::/48" :> [exc |-> "None", ip |-> <<9760, 254, 0, 0, 0, 0, 0, 0>>, prefixlen |-> 48,
      network_address |-> <<9760, 254, 0, 0, 0, 0, 0, 0>>, with_prefixlen |-> "2620:fe::/48",
      network_with_prefixlen |-> "2620:fe::/48",
      exploded |-> "2620:00fe:0000:0000:0000:0000:0000:0000/48"] @@
  "2620:fe::fe" :> [exc |-> "None", ip |-> <<9760, 254, 0, 0, 0, 0, 0, 254>>, prefixlen |-> 128,
      network_address |-> <<9760, 254, 0, 0, 0, 0, 0, 254>>, with_prefixlen |-> "2620:fe::fe/128",
      network_with_prefixlen |-> "2620:fe::fe/128",
      exploded |-> "2620:00fe:0000:0000:0000:0000:0000:00fe/128"] @@
  "2620:fe::fe/128" :> [exc |-> "None", ip |-> <<9760, 254, 0, 0, 0, 0, 0, 254>>, prefixlen |-> 128,
      network_address |-> <<9760, 254, 0, 0, 0, 0, 0, 254>>, with_prefixlen |-> "2620:fe::fe/128",
      network_with_prefixlen |-> "2620:fe::fe/128",
      exploded |-> "2620:00fe:0000:0000:0000:0000:0000:00fe/128"] @@
  "2800:0000::/12" :> [exc |-> "None", ip |-> <<10240, 0, 0, 0, 0, 0, 0, 0>>, prefixlen |-> 12,
      network_address |-> <<10240, 0, 0, 0, 0, 0, 0, 0>>, with_prefixlen |-> "2800::/12",
      network_with_prefixlen |-> "2800::/12",
      exploded |-> "2800:0000:0000:0000:0000:0000:0000:0000/12"] @@
  "2800::/12" :> [exc |-> "None", ip |-> <<10240, 0, 0, 0, 0, 0, 0, 0>>, prefixlen |-> 12,
      network_address |-> <<10240, 0, 0, 0, 0, 0, 0, 0>>, with_prefixlen |-> "2800::/12",
      network_with_prefixlen |-> "2800::/12",
      exploded |-> "2800:0000:0000:0000:0000:0000:0000:0000/12"] @@
  "2804:49c:3102:401:ffff:ffff:ffff:36" :> [exc |-> "None", ip |-> <<10244, 1180, 12546, 1025, 65535, 65535, 65535, 54>>, prefixlen |-> 128,
      network_address |-> <<10244, 1180, 12546, 1025, 65535, 65535, 65535, 54>>, with_prefixlen |-> "2804:49c:3102:401:ffff:ffff:ffff:36/128",
      network_with_prefixlen |-> "2804:49c:3102:401:ffff:ffff:ffff:36/128",
      exploded |-> "2804:049c:3102:0401:ffff:ffff:ffff:0036/128"] @@
  "2804:49c:3102:401:ffff:ffff:ffff:36/128" :> [exc |-> "None", ip |-> <<10244, 1180, 12546, 1025, 65535, 65535, 65535, 54>>, prefixlen |-> 128,
      network_address |-> <<10244, 1180, 12546, 1025, 65535, 65535, 65535, 54>>, with_prefixlen |-> "2804:49c:3102:401:ffff:ffff:ffff:36/128",
      network_with_prefixlen |-> "2804:49c:3102:401:ffff:ffff:ffff:36/128",
      exploded |-> "2804:049c:3102:0401:ffff:ffff:ffff:0036/128"] @@
  "2a00::/11" :> [exc |-> "None", ip |-> <<10752, 0, 0, 0, 0, 0, 0, 0>>, prefixlen |-> 11,
      network_address |-> <<10752, 0, 0, 0, 0, 0, 0, 0>>, with_prefixlen |-> "2a00::/11",
      network_with_prefixlen |-> "2a00::/11",
      exploded |-> "2a00:0000:0000:0000:0000:0000:0000:0000/11"] @@
  "2a01:4f8::/32" :> [exc |-> "None", ip |-> <<10753, 1272, 0, 0, 0, 0, 0, 0>>, prefixlen |-> 32,
      network_address |-> <<10753, 1272, 0, 0, 0, 0, 0, 0>>, with_prefixlen |-> "2a01:4f8::/32",
      network_with_prefixlen |-> "2a01:4f8::/32",
      exploded |-> "2a01:04f8:0000:0000:0000:0000:0000:0000/32"] @@
  "2a01:4f8:c0c:9e5b::/64" :> [exc |-> "None", ip |-> <<10753, 1272, 3084, 40539, 0, 0, 0, 0>>, prefixlen |-> 64,
      network_address |-> <<10753, 1272, 3084, 40539, 0, 0, 0, 0>>, with_prefixlen |-> "2a01:4f8:c0c:9e5b::/64",
      network_with_prefixlen |-> "2a01:4f8:c0c:9e5b::/64",
      exploded |-> "2a01:04f8:0c0c:9e5b:0000:0000:0000:0000/64"] @@
  "2a01:4f8:c0c:9e5b::1/64" :> [exc |-> "None", ip |-> <<10753, 1272, 3084, 40539, 0, 0, 0, 1>>, prefixlen |-> 64,
      network_address |-> <<10753, 1272, 3084, 40539, 0, 0, 0, 0>>, with_prefixlen |-> "2a01:4f8:c0c:9e5b::1/64",
      network_with_prefixlen |-> "2a01:4f8:c0c:9e5b::/64",
      exploded |-> "2a01:04f8:0c0c:9e5b:0000:0000:0000:0001/64"] @@
  "2c0f:f000::/32" :> [exc |-> "None", ip |-> <<11279, 61440, 0, 0, 0, 0, 0, 0>>, prefixlen |-> 32,
      network_address |-> <<11279, 61440, 0, 0, 0, 0, 0, 0>>, with_prefixlen |-> "2c0f:f000::/32",
      network_with_prefixlen |-> "2c0f:f000::/32",
      exploded |-> "2c0f:f000:0000:0000:0000:0000:0000:0000/32"] @@
  "2c0f:f000::1" :> [exc |-> "None", ip |-> <<11279, 61440, 0, 0, 0, 0, 0, 1>>, prefixlen |-> 128,
      network_address |-> <<11279, 61440, 0, 0, 0, 0, 0, 1>>, with_prefixlen |-> "2c0f:f000::1/128",
      network_with_prefixlen |-> "2c0f:f000::1/128",
      exploded |-> "2c0f:f000:0000:0000:0000:0000:0000:0001/128"] @@
  "2c0f:f000::1/128" :> [exc |-> "None", ip |-> <<11279, 61440, 0, 0, 0, 0, 0, 1>>, prefixlen |-> 128,
      network_address |-> <<11279, 61440, 0, 0, 0, 0, 0, 1>>, with_prefixlen |-> "2c0f:f000::1/128",
      network_with_prefixlen |-> "2c0f:f000::1/128",
      exploded |-> "2c0f:f000:0000:0000:0000:0000:0000:0001/128"] @@
  "2d00:0000::/8" :> [exc |-> "None", ip |-> <<11520, 0, 0, 0, 0, 0, 0, 0>>, prefixlen |-> 8,
      network_address |-> <<11520, 0, 0, 0, 0, 0, 0, 0>>, with_prefixlen |-> "2d00::/8",
      network_with_prefixlen |-> "2d00::/8",
      exploded |-> "2d00:0000:0000:0000:0000:0000:0000:0000/8"] @@
  "2d00::/8" :> [exc |-> "None", ip |-> <<11520, 0, 0, 0, 0, 0, 0, 0>>, prefixlen |-> 8,
      network_address |-> <<11520, 0, 0, 0, 0, 0, 0, 0>>, with_prefixlen |-> "2d00::/8",
      network_with_prefixlen |-> "2d00::/8",
      exploded |-> "2d00:0000:0000:0000:0000:0000:0000:0000/8"] @@
  "2e00:0000::/7" :> [exc |-> "None", ip |-> <<11776, 0, 0, 0, 0, 0, 0, 0>>, prefixlen |-> 7,
      network_address |-> <<11776, 0, 0, 0, 0, 0, 0, 0>>, with_prefixlen |-> "2e00::/7",
      network_with_prefixlen |-> "2e00::/7",
      exploded |-> "2e00:0000:0000:0000:0000:0000:0000:0000/7"] @@
  "2e00::/7" :> [exc |-> "None", ip |-> <<11776, 0, 0, 0, 0, 0, 0, 0>>, prefixlen |-> 7,
      network_address |-> <<11776, 0, 0, 0, 0, 0, 0, 0>>, with_prefixlen |-> "2e00::/7",
      network_with_prefixlen |-> "2e00::/7",
      exploded |-> "2e00:0000:0000:0000:0000:0000:0000:0000/7"] @@
  "3000:0000::/4" :> [exc |-> "None", ip |-> <<12288, 0, 0, 0, 0, 0, 0, 0>>, prefixlen |-> 4,
      network_address |-> <<12288, 0, 0, 0, 0, 0, 0, 0>>, with_prefixlen |-> "3000::/4",
      network_with_prefixlen |-> "3000::/4",
      exploded |-> "3000:0000:0000:0000:0000:0000:0000:0000/4"] @@
  "3000::/4" :> [exc |-> "None", ip |-> <<12288, 0, 0, 0, 0, 0, 0, 0>>, prefixlen |-> 4,
      network_address |-> <<12288, 0, 0, 0, 0, 0, 0, 0>>, with_prefixlen |-> "3000::/4",
      network_with_prefixlen |-> "3000::/4",
      exploded |-> "3000:0000:0000:0000:0000:0000:0000:0000/4"] @@
  "3ffe::/16" :> [exc |-> "None", ip |-> <<16382, 0, 0, 0, 0, 0, 0, 0>>, prefixlen |-> 16,
      network_address |-> <<16382, 0, 0, 0, 0, 0, 0, 0>>, with_prefixlen |-> "3ffe::/16",
      network_with_prefixlen |-> "3ffe::/16",
      exploded |-> "3ffe:0000:0000:0000:0000:0000:0000:0000/16"] @@
  "5f00::/16" :> [exc |-> "None", ip |-> <<24320, 0, 0, 0, 0, 0, 0, 0>>, prefixlen |-> 16,
      network_address |-> <<24320, 0, 0, 0, 0, 0, 0, 0>>, with_prefixlen |-> "5f00::/16",
      network_with_prefixlen |-> "5f00::/16",
      exploded |-> "5f00:0000:0000:0000:0000:0000:0000:0000/16"] @@
  "64:ff9b:1::/48" :> [exc |-> "None", ip |-> <<100, 65435, 1, 0, 0, 0, 0, 0>>, prefixlen |-> 48,
      network_address |-> <<100, 65435, 1, 0, 0, 0, 0, 0>>, with_prefixlen |-> "64:ff9b:1::/48",
      network_with_prefixlen |-> "64:ff9b:1::/48",
      exploded |-> "0064:ff9b:0001:0000:0000:0000:0000:0000/48"] @@
  "64:ff9b::/96" :> [exc |-> "None", ip |-> <<100, 65435, 0, 0, 0, 0, 0, 0>>, prefixlen |-> 96,
      network_address |-> <<100, 65435, 0, 0, 0, 0, 0, 0>>, with_prefixlen |-> "64:ff9b::/96",
      network_with_prefixlen |-> "64:ff9b::/96",
      exploded |-> "0064:ff9b:0000:0000:0000:0000:0000:0000/96"] @@
  "64:ff9b::192.168.1.200" :> [exc |-> "None", ip |-> <<100, 65435, 0, 0, 0, 0, 49320, 456>>, prefixlen |-> 128,
      network_address |-> <<100, 65435, 0, 0, 0, 0, 49320, 456>>, with_prefixlen |-> "64:ff9b::c0a8:1c8/128",
      network_with_prefixlen |-> "64:ff9b::c0a8:1c8/128",
      exploded |-> "0064:ff9b:0000:0000:0000:0000:c0a8:01c8/128"] @@
  "64:ff9b::c0a8:1c8/128" :> [exc |-> "None", ip |-> <<100, 65435, 0, 0, 0, 0, 49320, 456>>, prefixlen |-> 128,
      network_address |-> <<100, 65435, 0, 0, 0, 0, 49320, 456>>, with_prefixlen |-> "64:ff9b::c0a8:1c8/128",
      network_with_prefixlen |-> "64:ff9b::c0a8:1c8/128",
      exploded |-> "0064:ff9b:0000:0000:0000:0000:c0a8:01c8/128"] @@
  "::/0" :> [exc |-> "None", ip |-> <<0, 0, 0, 0, 0, 0, 0, 0>>, prefixlen |-> 0,
      network_address |-> <<0, 0, 0, 0, 0, 0, 0, 0>>, with_prefixlen |-> "::/0",
      network_with_prefixlen |-> "::/0",
      exploded |-> "0000:0000:0000:0000:0000:0000:0000:0000/0"] @@
  "::/128" :> [exc |-> "None", ip |-> <<0, 0, 0, 0, 0, 0, 0, 0>>, prefixlen |-> 128,
      network_address |-> <<0, 0, 0, 0, 0, 0, 0, 0>>, with_prefixlen |-> "::/128",
      network_with_prefixlen |-> "::/128",
      exploded |-> "0000:0000:0000:0000:0000:0000:0000:0000/128"] @@
  "::1" :> [exc |-> "None", ip |-> <<0, 0, 0, 0, 0, 0, 0, 1>>, prefixlen |-> 128,
      network_address |-> <<0, 0, 0, 0, 0, 0, 0, 1>>, with_prefixlen |-> "::1/128",
      network_with_prefixlen |-> "::1/128",
      exploded |-> "0000:0000:0000:0000:0000:0000:0000:0001/128"] @@
  "::1/128" :> [exc |-> "None", ip |-> <<0, 0, 0, 0, 0, 0, 0, 1>>, prefixlen |-> 128,
      network_address |-> <<0, 0, 0, 0, 0, 0, 0, 1>>, with_prefixlen |-> "::1/128",
      network_with_prefixlen |-> "::1/128",
      exploded |-> "0000:0000:0000:0000:0000:0000:0000:0001/128"] @@
  "::ffff:0:0/96" :> [exc |-> "None", ip |-> <<0, 0, 0, 0, 0, 65535, 0, 0>>, prefixlen |-> 96,
      network_address |-> <<0, 0, 0, 0, 0, 65535, 0, 0>>, with_prefixlen |-> "::ffff:0:0/96",
      network_with_prefixlen |-> "::ffff:0:0/96",
      exploded |-> "0000:0000:0000:0000:0000:ffff:0000:0000/96"] @@
  "::ffff:192.168.1.200" :> [exc |-> "None", ip |-> <<0, 0, 0, 0, 0, 65535, 49320, 456>>, prefixlen |-> 128,
      network_address |-> <<0, 0, 0, 0, 0, 65535, 49320, 456>>, with_prefixlen |-> "::ffff:c0a8:1c8/128",
      network_with_prefixlen |-> "::ffff:c0a8:1c8/128",
      exploded |-> "0000:0000:0000:0000:0000:ffff:c0a8:01c8/128"] @@
  "::ffff:c0a8:1c8/128" :> [exc |-> "None", ip |-> <<0, 0, 0, 0, 0, 65535, 49320, 456>>, prefixlen |-> 128,
      network_address |-> <<0, 0, 0, 0, 0, 65535, 49320, 456>>, with_prefixlen |-> "::ffff:c0a8:1c8/128",
      network_with_prefixlen |-> "::ffff:c0a8:1c8/128",
      exploded |-> "0000:0000:0000:0000:0000:ffff:c0a8:01c8/128"] @@
  "IANA-BLK" :> [exc |-> "AddressValueError"] @@
  "NET6-2600-1" :> [exc |-> "AddressValueError"] @@
  "abcd:1234::" :> [exc |-> "None", ip |-> <<43981, 4660, 0, 0, 0, 0, 0, 0>>, prefixlen |-> 128,
      network_address |-> <<43981, 4660, 0, 0, 0, 0, 0, 0>>, with_prefixlen |-> "abcd:1234::/128",
      network_with_prefixlen |-> "abcd:1234::/128",
      exploded |-> "abcd:1234:0000:0000:0000:0000:0000:0000/128"] @@
  "abcd:1234::/128" :> [exc |-> "None", ip |-> <<43981, 4660, 0, 0, 0, 0, 0, 0>>, prefixlen |-> 128,
      network_address |-> <<43981, 4660, 0, 0, 0, 0, 0, 0>>, with_prefixlen |-> "abcd:1234::/128",
      network_with_prefixlen |-> "abcd:1234::/128",
      exploded |-> "abcd:1234:0000:0000:0000:0000:0000:0000/128"] @@
  "fc00::/7" :> [exc |-> "None", ip |-> <<64512, 0, 0, 0, 0, 0, 0, 0>>, prefixlen |-> 7,
      network_address |-> <<64512, 0, 0, 0, 0, 0, 0, 0>>, with_prefixlen |-> "fc00::/7",
      network_with_prefixlen |-> "fc00::/7",
      exploded |-> "fc00:0000:0000:0000:0000:0000:0000:0000/7"] @@
  "fc00::/8" :> [exc |-> "None", ip |-> <<64512, 0, 0, 0, 0, 0, 0, 0>>, prefixlen |-> 8,
      network_address |-> <<64512, 0, 0, 0, 0, 0, 0, 0>>, with_prefixlen |-> "fc00::/8",
      network_with_prefixlen |-> "fc00::/8",
      exploded |-> "fc00:0000:0000:0000:0000:0000:0000:0000/8"] @@
  "fd00::/8" :> [exc |-> "None", ip |-> <<64768, 0, 0, 0, 0, 0, 0, 0>>, prefixlen |-> 8,
      network_address |-> <<64768, 0, 0, 0, 0, 0, 0, 0>>, with_prefixlen |-> "fd00::/8",
      network_with_prefixlen |-> "fd00::/8",
      exploded |-> "fd00:0000:0000:0000:0000:0000:0000:0000/8"] @@
  "fdee:dead:beef:0:f03c:92ff:fe41:3428/128" :> [exc |-> "None", ip |-> <<65006, 57005, 48879, 0, 61500, 37631, 65089, 13352>>, prefixlen |-> 128,
      network_address |-> <<65006, 57005, 48879, 0, 61500, 37631, 65089, 13352>>, with_prefixlen |-> "fdee:dead:beef:0:f03c:92ff:fe41:3428/128",
      network_with_prefixlen |-> "fdee:dead:beef:0:f03c:92ff:fe41:3428/128",
      exploded |-> "fdee:dead:beef:0000:f03c:92ff:fe41:3428/128"] @@
  "fdee:dead:beef::f03c:92ff:fe41:3428" :> [exc |-> "None", ip |-> <<65006, 57005, 48879, 0, 61500, 37631, 65089, 13352>>, prefixlen |-> 128,
      network_address |-> <<65006, 57005, 48879, 0, 61500, 37631, 65089, 13352>>, with_prefixlen |-> "fdee:dead:beef:0:f03c:92ff:fe41:3428/128",
      network_with_prefixlen |-> "fdee:dead:beef:0:f03c:92ff:fe41:3428/128",
      exploded |-> "fdee:dead:beef:0000:f03c:92ff:fe41:3428/128"] @@
  "fe80::/10" :> [exc |-> "None", ip |-> <<65152, 0, 0, 0, 0, 0, 0, 0>>, prefixlen |-> 10,
      network_address |-> <<65152, 0, 0, 0, 0, 0, 0, 0>>, with_prefixlen |-> "fe80::/10",
      network_with_prefixlen |-> "fe80::/10",
      exploded |-> "fe80:0000:0000:0000:0000:0000:0000:0000/10"] @@
  "fe80::1234:56ff:ff78:9abc" :> [exc |-> "None", ip |-> <<65152, 0, 0, 0, 4660, 22271, 65400, 39612>>, prefixlen |-> 128,
      network_address |-> <<65152, 0, 0, 0, 4660, 22271, 65400, 39612>>, with_prefixlen |-> "fe80::1234:56ff:ff78:9abc/128",
      network_with_prefixlen |-> "fe80::1234:56ff:ff78:9abc/128",
      exploded |-> "fe80:0000:0000:0000:1234:56ff:ff78:9abc/128"] @@
  "fe80::1234:56ff:ff78:9abc/128" :> [exc |-> "None", ip |-> <<65152, 0, 0, 0, 4660, 22271, 65400, 39612>>, prefixlen |-> 128,
      network_address |-> <<65152, 0, 0, 0, 4660, 22271, 65400, 39612>>, with_prefixlen |-> "fe80::1234:56ff:ff78:9abc/128",
      network_with_prefixlen |-> "fe80::1234:56ff:ff78:9abc/128",
      exploded |-> "fe80:0000:0000:0000:1234:56ff:ff78:9abc/128"] @@
  "fec0::/10" :> [exc |-> "None", ip |-> <<65216, 0, 0, 0, 0, 0, 0, 0>>, prefixlen |-> 10,
      network_address |-> <<65216, 0, 0, 0, 0, 0, 0, 0>>, with_prefixlen |-> "fec0::/10",
      network_with_prefixlen |-> "fec0::/10",
      exploded |-> "fec0:0000:0000:0000:0000:0000:0000:0000/10"] @@
  "ff00::/12" :> [exc |-> "None", ip |-> <<65280, 0, 0, 0, 0, 0, 0, 0>>, prefixlen |-> 12,
      network_address |-> <<65280, 0, 0, 0, 0, 0, 0, 0>>, with_prefixlen |-> "ff00::/12",
      network_with_prefixlen |-> "ff00::/12",
      exploded |-> "ff00:0000:0000:0000:0000:0000:0000:0000/12"] @@
  "ff00::/8" :> [exc |-> "None", ip |-> <<65280, 0, 0, 0, 0, 0, 0, 0>>, prefixlen |-> 8,
      network_address |-> <<65280, 0, 0, 0, 0, 0, 0, 0>>, with_prefixlen |-> "ff00::/8",
      network_with_prefixlen |-> "ff00::/8",
      exploded |-> "ff00:0000:0000:0000:0000:0000:0000:0000/8"] @@
  "ff01::/16" :> [exc |-> "None", ip |-> <<65281, 0, 0, 0, 0, 0, 0, 0>>, prefixlen |-> 16,
      network_address |-> <<65281, 0, 0, 0, 0, 0, 0, 0>>, with_prefixlen |-> "ff01::/16",
      network_with_prefixlen |-> "ff01::/16",
      exploded |-> "ff01:0000:0000:0000:0000:0000:0000:0000/16"] @@
  "ff01::1/128" :> [exc |-> "None", ip |-> <<65281, 0, 0, 0, 0, 0, 0, 1>>, prefixlen |-> 128,
      network_address |-> <<65281, 0, 0, 0, 0, 0, 0, 1>>, with_prefixlen |-> "ff01::1/128",
      network_with_prefixlen |-> "ff01::1/128",
      exploded |-> "ff01:0000:0000:0000:0000:0000:0000:0001/128"] @@
  "ff01::101/128" :> [exc |-> "None", ip |-> <<65281, 0, 0, 0, 0, 0, 0, 257>>, prefixlen |-> 128,
      network_address |-> <<65281, 0, 0, 0, 0, 0, 0, 257>>, with_prefixlen |-> "ff01::101/128",
      network_with_prefixlen |-> "ff01::101/128",
      exploded |-> "ff01:0000:0000:0000:0000:0000:0000:0101/128"] @@
  "ff01::2/128" :> [exc |-> "None", ip |-> <<65281, 0, 0, 0, 0, 0, 0, 2>>, prefixlen |-> 128,
      network_address |-> <<65281, 0, 0, 0, 0, 0, 0, 2>>, with_prefixlen |-> "ff01::2/128",
      network_with_prefixlen |-> "ff01::2/128",
      exploded |-> "ff01:0000:0000:0000:0000:0000:0000:0002/128"] @@
  "ff01::fb/128" :> [exc |-> "None", ip |-> <<65281, 0, 0, 0, 0, 0, 0, 251>>, prefixlen |-> 128,
      network_address |-> <<65281, 0, 0, 0, 0, 0, 0, 251>>, with_prefixlen |-> "ff01::fb/128",
      network_with_prefixlen |-> "ff01::fb/128",
      exploded |-> "ff01:0000:0000:0000:0000:0000:0000:00fb/128"] @@
  "ff02::/16" :> [exc |-> "None", ip |-> <<65282, 0, 0, 0, 0, 0, 0, 0>>, prefixlen |-> 16,
      network_address |-> <<65282, 0, 0, 0, 0, 0, 0, 0>>, with_prefixlen |-> "ff02::/16",
      network_with_prefixlen |-> "ff02::/16",
      exploded |-> "ff02:0000:0000:0000:0000:0000:0000:0000/16"] @@
  "ff02::1/128" :> [exc |-> "None", ip |-> <<65282, 0, 0, 0, 0, 0, 0, 1>>, prefixlen |-> 128,
      network_address |-> <<65282, 0, 0, 0, 0, 0, 0, 1>>, with_prefixlen |-> "ff02::1/128",
      network_with_prefixlen |-> "ff02::1/128",
      exploded |-> "ff02:0000:0000:0000:0000:0000:0000:0001/128"] @@
  "ff02::16/128" :> [exc |-> "None", ip |-> <<65282, 0, 0, 0, 0, 0, 0, 22>>, prefixlen |-> 128,
      network_address |-> <<65282, 0, 0, 0, 0, 0, 0, 22>>, with_prefixlen |-> "ff02::16/128",
      network_with_prefixlen |-> "ff02::16/128",
      exploded |-> "ff02:0000:0000:0000:0000:0000:0000:0016/128"] @@
  "ff02::1:2/128" :> [exc |-> "None", ip |-> <<65282, 0, 0, 0, 0, 0, 1, 2>>, prefixlen |-> 128,
      network_address |-> <<65282, 0, 0, 0, 0, 0, 1, 2>>, with_prefixlen |-> "ff02::1:2/128",
      network_with_prefixlen |-> "ff02::1:2/128",
      exploded |-> "ff02:0000:0000:0000:0000:0000:0001:0002/128"] @@
  "ff02::1:ff00:0/104" :> [exc |-> "None", ip |-> <<65282, 0, 0, 0, 0, 1, 65280, 0>>, prefixlen |-> 104,
      network_address |-> <<65282, 0, 0, 0, 0, 1, 65280, 0>>, with_prefixlen |-> "ff02::1:ff00:0/104",
      network_with_prefixlen |-> "ff02::1:ff00:0/104",
      exploded |-> "ff02:0000:0000:0000:0000:0001:ff00:0000/104"] @@
  "ff02::2/128" :> [exc |-> "None", ip |-> <<65282, 0, 0, 0, 0, 0, 0, 2>>, prefixlen |-> 128,
      network_address |-> <<65282, 0, 0, 0, 0, 0, 0, 2>>, with_prefixlen |-> "ff02::2/128",
      network_with_prefixlen |-> "ff02::2/128",
      exploded |-> "ff02:0000:0000:0000:0000:0000:0000:0002/128"] @@
  "ff02::5/128" :> [exc |-> "None", ip |-> <<65282, 0, 0, 0, 0, 0, 0, 5>>, prefixlen |-> 128,
      network_address |-> <<65282, 0, 0, 0, 0, 0, 0, 5>>, with_prefixlen |-> "ff02::5/128",
      network_with_prefixlen |-> "ff02::5/128",
      exploded |-> "ff02:0000:0000:0000:0000:0000:0000:0005/128"] @@
  "ff02::6/128" :> [exc |-> "None", ip |-> <<65282, 0, 0, 0, 0, 0, 0, 6>>, prefixlen |-> 128,
      network_address |-> <<65282, 0, 0, 0, 0, 0, 0, 6>>, with_prefixlen |-> "ff02::6/128",
      network_with_prefixlen |-> "ff02::6/128",
      exploded |-> "ff02:0000:0000:0000:0000:0000:0000:0006/128"] @@
  "ff02::9/128" :> [exc |-> "None", ip |-> <<65282, 0, 0, 0, 0, 0, 0, 9>>, prefixlen |-> 128,
      network_address |-> <<65282, 0, 0, 0, 0, 0, 0, 9>>, with_prefixlen |-> "ff02::9/128",
      network_with_prefixlen |-> "ff02::9/128",
      exploded |-> "ff02:0000:0000:0000:0000:0000:0000:0009/128"] @@
  "ff02::a/128" :> [exc |-> "None", ip |-> <<65282, 0, 0, 0, 0, 0, 0, 10>>, prefixlen |-> 128,
      network_address |-> <<65282, 0, 0, 0, 0, 0, 0, 10>>, with_prefixlen |-> "ff02::a/128",
      network_with_prefixlen |-> "ff02::a/128",
      exploded |-> "ff02:0000:0000:0000:0000:0000:0000:000a/128"] @@
  "ff02::c/128" :> [exc |-> "None", ip |-> <<65282, 0, 0, 0, 0, 0, 0, 12>>, prefixlen |-> 128,
      network_address |-> <<65282, 0, 0, 0, 0, 0, 0, 12>>, with_prefixlen |-> "ff02::c/128",
      network_with_prefixlen |-> "ff02::c/128",
      exploded |-> "ff02:0000:0000:0000:0000:0000:0000:000c/128"] @@
  "ff02::fb/128" :> [exc |-> "None", ip |-> <<65282, 0, 0, 0, 0, 0, 0, 251>>, prefixlen |-> 128,
      network_address |-> <<65282, 0, 0, 0, 0, 0, 0, 251>>, with_prefixlen |-> "ff02::fb/128",
      network_with_prefixlen |-> "ff02::fb/128",
      exploded |-> "ff02:0000:0000:0000:0000:0000:0000:00fb/128"] @@
  "ff03::/16" :> [exc |-> "None", ip |-> <<65283, 0, 0, 0, 0, 0, 0, 0>>, prefixlen |-> 16,
      network_address |-> <<65283, 0, 0, 0, 0, 0, 0, 0>>, with_prefixlen |-> "ff03::/16",
      network_with_prefixlen |-> "ff03::/16",
      exploded |-> "ff03:0000:0000:0000:0000:0000:0000:0000/16"] @@
  "ff04::/16" :> [exc |-> "None", ip |-> <<65284, 0, 0, 0, 0, 0, 0, 0>>, prefixlen |-> 16,
      network_address |-> <<65284, 0, 0, 0, 0, 0, 0, 0>>, with_prefixlen |-> "ff04::/16",
      network_with_prefixlen |-> "ff04::/16",
      exploded |-> "ff04:0000:0000:0000:0000:0000:0000:0000/16"] @@
  "ff05::/16" :> [exc |-> "None", ip |-> <<65285, 0, 0, 0, 0, 0, 0, 0>>, prefixlen |-> 16,
      network_address |-> <<65285, 0, 0, 0, 0, 0, 0, 0>>, with_prefixlen |-> "ff05::/16",
      network_with_prefixlen |-> "ff05::/16",
      exploded |-> "ff05:0000:0000:0000:0000:0000:0000:0000/16"] @@
  "ff05::1:3/128" :> [exc |-> "None", ip |-> <<65285, 0, 0, 0, 0, 0, 1, 3>>, prefixlen |-> 128,
      network_address |-> <<65285, 0, 0, 0, 0, 0, 1, 3>>, with_prefixlen |-> "ff05::1:3/128",
      network_with_prefixlen |-> "ff05::1:3/128",
      exploded |-> "ff05:0000:0000:0000:0000:0000:0001:0003/128"] @@
  "ff05::1:4/128" :> [exc |-> "None", ip |-> <<65285, 0, 0, 0, 0, 0, 1, 4>>, prefixlen |-> 128,
      network_address |-> <<65285, 0, 0, 0, 0, 0, 1, 4>>, with_prefixlen |-> "ff05::1:4/128",
      network_with_prefixlen |-> "ff05::1:4/128",
      exploded |-> "ff05:0000:0000:0000:0000:0000:0001:0004/128"] @@
  "ff05::1:5/128" :> [exc |-> "None", ip |-> <<65285, 0, 0, 0, 0, 0, 1, 5>>, prefixlen |-> 128,
      network_address |-> <<65285, 0, 0, 0, 0, 0, 1, 5>>, with_prefixlen |-> "ff05::1:5/128",
      network_with_prefixlen |-> "ff05::1:5/128",
      exploded |-> "ff05:0000:0000:0000:0000:0000:0001:0005/128"] @@
  "ff05::2/128" :> [exc |-> "None", ip |-> <<65285, 0, 0, 0, 0, 0, 0, 2>>, prefixlen |-> 128,
      network_address |-> <<65285, 0, 0, 0, 0, 0, 0, 2>>, with_prefixlen |-> "ff05::2/128",
      network_with_prefixlen |-> "ff05::2/128",
      exploded |-> "ff05:0000:0000:0000:0000:0000:0000:0002/128"] @@
  "ff05::fb/128" :> [exc |-> "None", ip |-> <<65285, 0, 0, 0, 0, 0, 0, 251>>, prefixlen |-> 128,
      network_address |-> <<65285, 0, 0, 0, 0, 0, 0, 251>>, with_prefixlen |-> "ff05::fb/128",
      network_with_prefixlen |-> "ff05::fb/128",
      exploded |-> "ff05:0000:0000:0000:0000:0000:0000:00fb/128"] @@
  "ff08::/16" :> [exc |-> "None", ip |-> <<65288, 0, 0, 0, 0, 0, 0, 0>>, prefixlen |-> 16,
      network_address |-> <<65288, 0, 0, 0, 0, 0, 0, 0>>, with_prefixlen |-> "ff08::/16",
      network_with_prefixlen |-> "ff08::/16",
      exploded |-> "ff08:0000:0000:0000:0000:0000:0000:0000/16"] @@
  "ff0e::/16" :> [exc |-> "None", ip |-> <<65294, 0, 0, 0, 0, 0, 0, 0>>, prefixlen |-> 16,
      network_address |-> <<65294, 0, 0, 0, 0, 0, 0, 0>>, with_prefixlen |-> "ff0e::/16",
      network_with_prefixlen |-> "ff0e::/16",
      exploded |-> "ff0e:0000:0000:0000:0000:0000:0000:0000/16"] @@
  "ff10::/12" :> [exc |-> "None", ip |-> <<65296, 0, 0, 0, 0, 0, 0, 0>>, prefixlen |-> 12,
      network_address |-> <<65296, 0, 0, 0, 0, 0, 0, 0>>, with_prefixlen |-> "ff10::/12",
      network_with_prefixlen |-> "ff10::/12",
      exploded |-> "ff10:0000:0000:0000:0000:0000:0000:0000/12"] @@
  "ff30::/12" :> [exc |-> "None", ip |-> <<65328, 0, 0, 0, 0, 0, 0, 0>>, prefixlen |-> 12,
      network_address |-> <<65328, 0, 0, 0, 0, 0, 0, 0>>, with_prefixlen |-> "ff30::/12",
      network_with_prefixlen |-> "ff30::/12",
      exploded |-> "ff30:0000:0000:0000:0000:0000:0000:0000/12"] @@
  "ff70::/12" :> [exc |-> "None", ip |-> <<65392, 0, 0, 0, 0, 0, 0, 0>>, prefixlen |-> 12,
      network_address |-> <<65392, 0, 0, 0, 0, 0, 0, 0>>, with_prefixlen |-> "ff70::/12",
      network_with_prefixlen |-> "ff70::/12",
      exploded |-> "ff70:0000:0000:0000:0000:0000:0000:0000/12"] @@
  "no-CIDR" :> [exc |-> "AddressValueError"] @@
  "no-CIDR/128" :> [exc |-> "AddressValueError"] @@
  "no-cidr" :> [exc |-> "AddressValueError"] @@
  "not-an-address" :> [exc |-> "AddressValueError"]

lower_table ==
  "0064:ff9b:1::/48" :> "0064:ff9b:1::/48" @@
  "0064:ff9b::/96" :> "0064:ff9b::/96" @@
  "0100::/64" :> "0100::/64" @@
  "0200::/7" :> "0200::/7" @@
  "100::/64" :> "100::/64" @@
  "2000::/3" :> "2000::/3" @@
  "2001:0db8::/32" :> "2001:0db8::/32" @@
  "2001:1::1/128" :> "2001:1::1/128" @@
  "2001:1::2/128" :> "2001:1::2/128" @@
  "2001:20::/28" :> "2001:20::/28" @@
  "2001:2::/48" :> "2001:2::/48" @@
  "2001:3::/32" :> "2001:3::/32" @@
  "2001:4860::/32" :> "2001:4860::/32" @@
  "2001:4:112::/48" :> "2001:4:112::/48" @@
  "2001::/23" :> "2001::/23" @@
  "2001::/32" :> "2001::/32" @@
  "2001:db8:8:4::2:1" :> "2001:db8:8:4::2:1" @@
  "2001:db8:8:4::2:1/128" :> "2001:db8:8:4::2:1/128" @@
  "2001:db8::/32" :> "2001:db8::/32" @@
  "2001:db8::bad/128" :> "2001:db8::bad/128" @@
  "2002::/16" :> "2002::/16" @@
  "200::/7" :> "200::/7" @@
  "2400:cb00::1" :> "2400:cb00::1" @@
  "2400:cb00::1/128" :> "2400:cb00::1/128" @@
  "2600:6C00::/24" :> "2600:6c00::/24" @@
  "2600:6C00::1/128" :> "2600:6c00::1/128" @@
  "2600:6c00::/24" :> "2600:6c00::/24" @@
  "2600:6c00::1" :> "2600:6c00::1" @@
  "2600:6c00::1/128" :> "2600:6c00::1/128" @@
  "2600:6c42:7003:300::/64" :> "2600:6c42:7003:300::/64" @@
  "2600:6c42:7600:1194::/64" :> "2600:6c42:7600:1194::/64" @@
  "2600:8800::/28" :> "2600:8800::/28" @@
  "2600:8802:4200:59:4c59:11ed:5359:49f6/64" :> "2600:8802:4200:59:4c59:11ed:5359:49f6/64" @@
  "2600:8802:4200:59::/64" :> "2600:8802:4200:59::/64" @@
  "2600::/12" :> "2600::/12" @@
  "2620:4f:8000::/48" :> "2620:4f:8000::/48" @@
  "2620::/129" :> "2620::/129" @@
  "2620:fe::/48" :> "2620:fe::/48" @@
  "2620:fe::fe" :> "2620:fe::fe" @@
  "2620:fe::fe/128" :> "2620:fe::fe/128" @@
  "2800:0000::/12" :> "2800:0000::/12" @@
  "2800::/12" :> "2800::/12" @@
  "2804:49c:3102:401:ffff:ffff:ffff:36" :> "2804:49c:3102:401:ffff:ffff:ffff:36" @@
  "2804:49c:3102:401:ffff:ffff:ffff:36/128" :> "2804:49c:3102:401:ffff:ffff:ffff:36/128" @@
  "2a00::/11" :> "2a00::/11" @@
  "2a01:4f8::/32" :> "2a01:4f8::/32" @@
  "2a01:4f8:c0c:9e5b::/64" :> "2a01:4f8:c0c:9e5b::/64" @@
  "2a01:4f8:c0c:9e5b::1/64" :> "2a01:4f8:c0c:9e5b::1/64" @@
  "2c0f:f000::/32" :> "2c0f:f000::/32" @@
  "2c0f:f000::1" :> "2c0f:f000::1" @@
  "2c0f:f000::1/128" :> "2c0f:f000::1/128" @@
  "2d00:0000::/8" :> "2d00:0000::/8" @@
  "2d00::/8" :> "2d00::/8" @@
  "2e00:0000::/7" :> "2e00:0000::/7" @@
  "2e00::/7" :> "2e00::/7" @@
  "3000:0000::/4" :> "3000:0000::/4" @@
  "3000::/4" :> "3000::/4" @@
  "3ffe::/16" :> "3ffe::/16" @@
  "5f00::/16" :> "5f00::/16" @@
  "64:ff9b:1::/48" :> "64:ff9b:1::/48" @@
  "64:ff9b::/96" :> "64:ff9b::/96" @@
  "64:ff9b::192.168.1.200" :> "64:ff9b::192.168.1.200" @@
  "64:ff9b::c0a8:1c8/128" :> "64:ff9b::c0a8:1c8/128" @@
  "::/0" :> "::/0" @@
  "::/128" :> "::/128" @@
  "::1" :> "::1" @@
  "::1/128" :> "::1/128" @@
  "::ffff:0:0/96" :> "::ffff:0:0/96" @@
  "::ffff:192.168.1.200" :> "::ffff:192.168.1.200" @@
  "::ffff:c0a8:1c8/128" :> "::ffff:c0a8:1c8/128" @@
  "IANA-BLK" :> "iana-blk" @@
  "NET6-2600-1" :> "net6-2600-1" @@
  "abcd:1234::" :> "abcd:1234::" @@
  "abcd:1234::/128" :> "abcd:1234::/128" @@
  "fc00::/7" :> "fc00::/7" @@
  "fc00::/8" :> "fc00::/8" @@
  "fd00::/8" :> "fd00::/8" @@
  "fdee:dead:beef:0:f03c:92ff:fe41:3428/128" :> "fdee:dead:beef:0:f03c:92ff:fe41:3428/128" @@
  "fdee:dead:beef::f03c:92ff:fe41:3428" :> "fdee:dead:beef::f03c:92ff:fe41:3428" @@
  "fe80::/10" :> "fe80::/10" @@
  "fe80::1234:56ff:ff78:9abc" :> "fe80::1234:56ff:ff78:9abc" @@
  "fe80::1234:56ff:ff78:9abc/128" :> "fe80::1234:56ff:ff78:9abc/128" @@
  "fec0::/10" :> "fec0::/10" @@
  "ff00::/12" :> "ff00::/12" @@
  "ff00::/8" :> "ff00::/8" @@
  "ff01::/16" :> "ff01::/16" @@
  "ff01::1/128" :> "ff01::1/128" @@
  "ff01::101/128" :> "ff01::101/128" @@
  "ff01::2/128" :> "ff01::2/128" @@
  "ff01::fb/128" :> "ff01::fb/128" @@
  "ff02::/16" :> "ff02::/16" @@
  "ff02::1/128" :> "ff02::1/128" @@
  "ff02::16/128" :> "ff02::16/128" @@
  "ff02::1:2/128" :> "ff02::1:2/128" @@
  "ff02::1:ff00:0/104" :> "ff02::1:ff00:0/104" @@
  "ff02::2/128" :> "ff02::2/128" @@
  "ff02::5/128" :> "ff02::5/128" @@
  "ff02::6/128" :> "ff02::6/128" @@
  "ff02::9/128" :> "ff02::9/128" @@
  "ff02::a/128" :> "ff02::a/128" @@
  "ff02::c/128" :> "ff02::c/128" @@
  "ff02::fb/128" :> "ff02::fb/128" @@
  "ff03::/16" :> "ff03::/16" @@
  "ff04::/16" :> "ff04::/16" @@
  "ff05::/16" :> "ff05::/16" @@
  "ff05::1:3/128" :> "ff05::1:3/128" @@
  "ff05::1:4/128" :> "ff05::1:4/128" @@
  "ff05::1:5/128" :> "ff05::1:5/128" @@
  "ff05::2/128" :> "ff05::2/128" @@
  "ff05::fb/128" :> "ff05::fb/128" @@
  "ff08::/16" :> "ff08::/16" @@
  "ff0e::/16" :> "ff0e::/16" @@
  "ff10::/12" :> "ff10::/12" @@
  "ff30::/12" :> "ff30::/12" @@
  "ff70::/12" :> "ff70::/12" @@
  "no-CIDR" :> "no-cidr" @@
  "no-CIDR/128" :> "no-cidr/128" @@
  "no-cidr" :> "no-cidr" @@
  "not-an-address" :> "not-an-address"

string_order ==
  <<"",
    "0000:0000:0000:0000:0000:0000:0000:0001/128",
    "0000:0000:0000:0000:0000:ffff:c0a8:01c8/128",
    "0064:ff9b:0000:0000:0000:0000:c0a8:01c8/128",
    "2001:0db8:0008:0004:0000:0000:0002:0001/128",
    "2400:cb00:0000:0000:0000:0000:0000:0001/128",
    "2600:6c00:0000:0000:0000:0000:0000:0001/128",
    "2600:8802:4200:0059:4c59:11ed:5359:49f6/64",
    "2620:00fe:0000:0000:0000:0000:0000:00fe/128",
    "2804:049c:3102:0401:ffff:ffff:ffff:0036/128",
    "2a01:04f8:0c0c:9e5b:0000:0000:0000:0001/64",
    "2c0f:f000:0000:0000:0000:0000:0000:0001/128",
    "6bone Testing Allocation",
    "6to4",
    "AFRINIC-NET: ORG-AFNC1-AFRINIC - African Network Information Center",
    "AMT",
    "ARIN-V6: ARIN - American Registry for Internet Numbers",
    "AS112-v6",
    "Admin-Local Scope",
    "All DHCP Servers",
    "All DHCPv6 servers and relay agents",
    "All NTP Servers",
    "All Nodes Address",
    "All Routers Address",
    "Benchmarking (never route)",
    "CC04: CC04 - Charter Communications",
    "Charter Communications (CC04)",
    "DE-HETZNER: ORG-HOA1-RIPE - Hetzner Online GmbH",
    "DEPRECATED (2003-03-12)",
    "DEPRECATED OSI NSAP-mapped prefix set",
    "DEPRECATED Site-Local Unicast (SLA)",
    "DOC-NET: IANA - Internet Assigned Numbers Authority",
    "Direct Delegation AS112 Service",
    "Discard-Only Address Block",
    "Documentation (never route)",
    "EIGRP Routers Address",
    "EU-ZZ-2A00: no-organization",
    "Global Scope",
    "Global Unicast (GUA)",
    "Google IPv6 (ASN 15169)",
    "IANA Reserved",
    "IANA-BLK: IANA - Internet Assigned Numbers Authority",
    "ICMPv6 (Multicast Listener Report)",
    "IETF Protocol Assignments",
    "IPv4-IPv6 Translat.",
    "IPv4-mapped Unicast",
    "Interface-Local Scope",
    "Invalid ULA (0 at bit-8)",
    "LACNIC",
    "Link-Local Scope",
    "Link-Local Unicast (LLA) Subnet ID == 0",
    "Loopback Unicast",
    "Multicast",
    "NETBLK-COXIPV6: CXA - Cox Communications Inc. (ASN 22773)",
    "ORCHIDv2",
    "OSPFIGP All Routers Address",
    "OSPFIGP Designated Routers Address",
    "Organization-Local Scope",
    "PCH-NET: PCH - Packet Clearing House",
    "Port Control Protocol Anycast",
    "RFC2471 RFC3701",
    "RFC2928",
    "RFC3056",
    "RFC3513 RFC3879",
    "RFC3849",
    "RFC4048 RFC4548",
    "RFC4193 RFC8190",
    "RFC4291",
    "RFC4291#section-2.7.1",
    "RFC4380 RFC8190",
    "RFC5180 RFC1752",
    "RFC6052",
    "RFC6621",
    "RFC6666",
    "RFC6762",
    "RFC7343",
    "RFC7450",
    "RFC7534",
    "RFC7535",
    "RFC7723",
    "RFC8155",
    "RFC8215",
    "RFC8415",
    "RIP2 Routers Address",
    "Realm-Local Scope",
    "SL-MANET-ROUTERS",
    "SSDP (Simple Service Discovery Protocol)",
    "Site-Local Scope",
    "Solicited-Node Multicast",
    "Teredo",
    "Tr Charter external (ASN 20115)",
    "Tr Charter internal (ASN 20115)",
    "Transient Multicast",
    "Transient Prefix-Based Multicast",
    "Transient Prefix-Based Multicast Rendezvous",
    "Traversal Using Relays around NAT Anycast",
    "Unique Local Unicast (ULA)",
    "Unspecified Unicast Address",
    "Valid ULA (1 at bit-8)",
    "Well-Known Multicast",
    "abcd:1234:0000:0000:0000:0000:0000:0000/128",
    "fdee:dead:beef:0000:f03c:92ff:fe41:3428/128",
    "fe80:0000:0000:0000:1234:56ff:ff78:9abc/128",
    "mDNSv6",
    "mDNSv6 (Multicast Domain Name System)",
    "no-name: no-organization">>

allocations_literal ==
  <<<<"::", "Unspecified Unicast Address", "RFC4291">>,
    <<"::1", "Loopback Unicast", "RFC4291">>,
    <<"::ffff:0:0/96", "IPv4-mapped Unicast", "RFC4291">>,
    <<"0064:ff9b::/96", "IPv4-IPv6 Translat.", "RFC6052">>,
    <<"0064:ff9b:1::/48", "IPv4-IPv6 Translat.", "RFC8215">>,
    <<"0100::/64", "Discard-Only Address Block", "RFC6666">>,
    <<"0200::/7", "DEPRECATED OSI NSAP-mapped prefix set", "RFC4048 RFC4548">>,
    <<"fc00::/7", "Unique Local Unicast (ULA)", "RFC4193 RFC8190">>,
    <<"fc00::/8", "Invalid ULA (0 at bit-8)", "">>,
    <<"fd00::/8", "Valid ULA (1 at bit-8)", "">>,
    <<"fe80::/10", "Link-Local Unicast (LLA) Subnet ID == 0", "RFC4291">>,
    <<"fec0::/10", "DEPRECATED Site-Local Unicast (SLA)", "RFC3513 RFC3879">>,
    <<"ff00::/8", "Multicast", "RFC4291">>,
    <<"ff00::/12", "Well-Known Multicast", "RFC4291">>,
    <<"ff10::/12", "Transient Multicast", "RFC4291">>,
    <<"ff30::/12", "Transient Prefix-Based Multicast", "RFC4291">>,
    <<"ff70::/12", "Transient Prefix-Based Multicast Rendezvous", "RFC4291">>,
    <<"ff02::1:ff00:0/104", "Solicited-Node Multicast", "RFC4291#section-2.7.1">>,
    <<"ff01::/16", "Interface-Local Scope", "RFC4291">>,
    <<"ff02::/16", "Link-Local Scope", "RFC4291">>,
    <<"ff03::/16", "Realm-Local Scope", "RFC4291">>,
    <<"ff04::/16", "Admin-Local Scope", "RFC4291">>,
    <<"ff05::/16", "Site-Local Scope", "RFC4291">>,
    <<"ff08::/16", "Organization-Local Scope", "RFC4291">>,
    <<"ff0e::/16", "Global Scope", "RFC4291">>,
    <<"ff01::1", "All Nodes Address", "RFC4291">>,
    <<"ff01::2", "All Routers Address", "RFC4291">>,
    <<"ff01::fb", "mDNSv6 (Multicast Domain Name System)", "RFC6762">>,
    <<"ff01::101", "All NTP Servers", "RFC4291">>,
    <<"ff02::1", "All Nodes Address", "RFC4291">>,
    <<"ff02::2", "All Routers Address", "RFC4291">>,
    <<"ff02::5", "OSPFIGP All Routers Address", "RFC4291">>,
    <<"ff02::6", "OSPFIGP Designated Routers Address", "RFC4291">>,
    <<"ff02::9", "RIP2 Routers Address", "RFC4291">>,
    <<"ff02::a", "EIGRP Routers Address", "RFC4291">>,
    <<"ff02::1:2", "All DHCPv6 servers and relay agents", "">>,
    <<"ff02::c", "SSDP (Simple Service Discovery Protocol)", "">>,
    <<"ff02::16", "ICMPv6 (Multicast Listener Report)", "">>,
    <<"ff02::fb", "mDNSv6 (Multicast Domain Name System)", "RFC6762">>,
    <<"ff05::2", "All Routers Address", "RFC4291">>,
    <<"ff05::fb", "mDNSv6", "RFC6762">>,
    <<"ff05::1:3", "All DHCP Servers", "RFC8415">>,
    <<"ff05::1:4", "DEPRECATED (2003-03-12)", "">>,
    <<"ff05::1:5", "SL-MANET-ROUTERS", "RFC6621">>,
    <<"2000::/3", "Global Unicast (GUA)", "">>,
    <<"2800:0000::/12", "LACNIC", "">>,
    <<"2001::/23", "IETF Protocol Assignments", "RFC2928">>,
    <<"2001::/32", "Teredo", "RFC4380 RFC8190">>,
    <<"2001:1::1", "Port Control Protocol Anycast", "RFC7723">>,
    <<"2001:1::2", "Traversal Using Relays around NAT Anycast", "RFC8155">>,
    <<"2001:2::/48", "Benchmarking (never route)", "RFC5180 RFC1752">>,
    <<"2001:3::/32", "AMT", "RFC7450">>,
    <<"2001:4:112::/48", "AS112-v6", "RFC7535">>,
    <<"2001:20::/28", "ORCHIDv2", "RFC7343">>,
    <<"2001:db8::/32", "Documentation (never route)", "RFC3849">>,
    <<"2002::/16", "6to4", "RFC3056">>,
    <<"2620:4f:8000::/48", "Direct Delegation AS112 Service", "RFC7534">>,
    <<"2d00:0000::/8", "IANA Reserved", "">>,
    <<"2e00:0000::/7", "IANA Reserved", "">>,
    <<"3000:0000::/4", "IANA Reserved", "">>,
    <<"3ffe::/16", "6bone Testing Allocation", "RFC2471 RFC3701">>,
    <<"5f00::/16", "6bone Testing Allocation", "RFC2471 RFC3701">>,
    <<"2001:4860::/32", "Google IPv6 (ASN 15169)", "">>,
    <<"2600:6C00::/24", "Charter Communications (CC04)", "">>,
    <<"2600:6c42:7003:300::/64", "Tr Charter external (ASN 20115)", "">>,
    <<"2600:6c42:7600:1194::/64", "Tr Charter internal (ASN 20115)", "">>>>

RDAP ==
  "2600:8802:4200:59:4c59:11ed:5359:49f6/64" :> [handle |-> "NET6-2600-8800-1", name |-> "NETBLK-COXIPV6", cidr0_cidrs |-> <<[v6prefix |-> "2600:8800::", length |-> 28]>>,
      parentHandle |-> <<"NET6-2600-1">>, entities |-> <<[handle |-> "CXA", fn |-> "Cox Communications Inc."]>>, autnums |-> <<"22773">>] @@
  "2600::/12" :> [handle |-> "NET6-2600-1", name |-> "ARIN-V6", cidr0_cidrs |-> <<[v6prefix |-> "2600::", length |-> 12]>>,
      parentHandle |-> <<>>, entities |-> <<[handle |-> "ARIN", fn |-> "American Registry for Internet Numbers"]>>, autnums |-> <<>>] @@
  "2600:6c00::1/128" :> [handle |-> "NET6-2600-6C00-1", name |-> "CC04", cidr0_cidrs |-> <<[v6prefix |-> "2600:6C00::", length |-> 24]>>,
      parentHandle |-> <<"2600::/12">>, entities |-> <<[handle |-> "CC04", fn |-> "Charter Communications"]>>, autnums |-> <<>>] @@
  "2a01:4f8:c0c:9e5b::1/64" :> [handle |-> "2a01:4f8::/32", name |-> "DE-HETZNER", cidr0_cidrs |-> <<[v6prefix |-> "2a01:4f8::", length |-> 32]>>,
      parentHandle |-> <<"2a00::/11">>, entities |-> <<[handle |-> "ORG-HOA1-RIPE", fn |-> "Hetzner Online GmbH"]>>, autnums |-> <<>>] @@
  "2a00::/11" :> [handle |-> "2a00::/11", name |-> "EU-ZZ-2A00", cidr0_cidrs |-> <<[v6prefix |-> "2a00::", length |-> 11]>>,
      parentHandle |-> <<"2a01:4f8::/32">>, entities |-> <<>>, autnums |-> <<>>] @@
  "2a01:4f8::/32" :> [handle |-> "2a01:4f8::/32", name |-> "DE-HETZNER", cidr0_cidrs |-> <<[v6prefix |-> "2a01:4f8::", length |-> 32]>>,
      parentHandle |-> <<"2a00::/11">>, entities |-> <<[handle |-> "ORG-HOA1-RIPE", fn |-> "Hetzner Online GmbH"]>>, autnums |-> <<>>] @@
  "2001:db8:8:4::2:1/128" :> [handle |-> "NET6-2001-DB8-1", name |-> "DOC-NET", cidr0_cidrs |-> <<[v6prefix |-> "2001:0db8::", length |-> 32]>>,
      parentHandle |-> <<>>, entities |-> <<[handle |-> "IANA", fn |-> "Internet Assigned Numbers Authority"]>>, autnums |-> <<>>] @@
  "2804:49c:3102:401:ffff:ffff:ffff:36/128" :> [handle |-> "BR-ABCD-LACNIC", name |-> "no-name", cidr0_cidrs |-> <<>>,
      parentHandle |-> <<>>, entities |-> <<>>, autnums |-> <<>>] @@
  "2620:fe::fe/128" :> [handle |-> "NET6-2620-FE-1", name |-> "PCH-NET", cidr0_cidrs |-> <<[v6prefix |-> "2620:fe::", length |-> 48]>>,
      parentHandle |-> <<"2620::/129">>, entities |-> <<[handle |-> "PCH", fn |-> "Packet Clearing House"]>>, autnums |-> <<>>] @@
  "2c0f:f000::1/128" :> [handle |-> "2c0f:f000::/32", name |-> "AFRINIC-NET", cidr0_cidrs |-> <<[v6prefix |-> "2c0f:f000::", length |-> 32]>>,
      parentHandle |-> <<"IANA-BLK">>, entities |-> <<[handle |-> "ORG-AFNC1-AFRINIC", fn |-> "African Network Information Center"]>>, autnums |-> <<>>] @@
  "2400:cb00::1/128" :> [handle |-> "::/0", name |-> "IANA-BLK", cidr0_cidrs |-> <<[v6prefix |-> "::", length |-> 0]>>,
      parentHandle |-> <<>>, entities |-> <<[handle |-> "IANA", fn |-> "Internet Assigned Numbers Authority"]>>, autnums |-> <<>>] @@
  "2600:6C00::1/128" :> [handle |-> "NET6-2600-6C00-1", name |-> "CC04", cidr0_cidrs |-> <<[v6prefix |-> "2600:6C00::", length |-> 24]>>,
      parentHandle |-> <<"2600::/12">>, entities |-> <<[handle |-> "CC04", fn |-> "Charter Communications"]>>, autnums |-> <<>>]

RWS ==
  "NET6-2600-1" :> [rdapRef |-> "https://rdap.arin.net/registry/ip/2600::", cidrLength |-> "12", parentNetRef |-> <<>>]

Candidates ==
  {"::1",
   "abcd:1234::",
   "2600:8802:4200:59:4c59:11ed:5359:49f6/64",
   "2600:6c00::1",
   "2a01:4f8:c0c:9e5b::1/64",
   "2001:db8:8:4::2:1",
   "2804:49c:3102:401:ffff:ffff:ffff:36",
   "not-an-address"}

WhoisKeys ==
  {"2600:6c00::1/128",
   "2600:6C00::1/128",
   "NET6-2600-1",
   "2001:db8::bad/128",
   "2a00::/11"}

OptionCandidates ==
  {"not-an-address",
   "::1",
   "abcd:1234::",
   "::ffff:192.168.1.200",
   "64:ff9b::192.168.1.200",
   "fdee:dead:beef::f03c:92ff:fe41:3428",
   "fe80::1234:56ff:ff78:9abc",
   "2620:fe::fe",
   "2c0f:f000::1",
   "2400:cb00::1"}

(***************************************************************************)
(* Python primitives.                                                      *)
(***************************************************************************)
\* str.startswith
StartsWith(s, p) == Len(s) >= Len(p) /\ SubSeq(s, 1, Len(p)) = p

\* str.endswith
EndsWith(s, p) == Len(s) >= Len(p) /\ SubSeq(s, Len(s) - Len(p) + 1, Len(s)) = p

\* `c in s` for a one-character string c
Contains(s, c) == \E i \in 1..Len(s) : SubSeq(s, i, i) = c

\* str.lower
lower(s) == lower_table[s]

\* str < str: position in the sorted list of the strings of the model
StrRank(s) == CHOOSE i \in 1..Len(string_order) : string_order[i] = s
StrLess(a, b) == StrRank(a) < StrRank(b)

\* integer order of two 128-bit values given as their eight groups
RECURSIVE IpLessFrom(_, _, _)
IpLessFrom(a, b, i) ==
    IF i > 8 THEN FALSE
    ELSE IF a[i] # b[i] THEN a[i] < b[i]
    ELSE IpLessFrom(a, b, i + 1)
IpLess(a, b) == IpLessFrom(a, b, 1)

\* 2^n for n in 0..16
Pow2(n) ==
    <<1, 2, 4, 8, 16, 32, 64, 128, 256, 512, 1024, 2048, 4096, 8192, 16384,
      32768, 65536>>[n + 1]

\* number of bits of group i (1..8) that a prefix of length p covers
BitsIn(p, i) ==
    IF p >= 16 * i THEN 16 ELSE IF p <= 16 * (i - 1) THEN 0 ELSE p - 16 * (i - 1)

\* group i of ip & netmask(p)
MaskGroup(ip, p, i) == ip[i] - (ip[i] % Pow2(16 - BitsIn(p, i)))

\* ipaddress.IPv6Interface(text): the object, or the exception it raises
IPv6Interface(text) == ipaddress_table[text]

\* ipaddress.IPv6Network(text), strict: host bits set raise ValueError
IPv6Network(text) ==
    LET t == ipaddress_table[text] IN
    IF t.exc # "None" THEN [exc |-> t.exc]
    ELSE IF t.ip # t.network_address THEN [exc |-> "ValueError"]
    ELSE [exc |-> "None",
          net |-> [network_address |-> t.network_address,
                   prefixlen       |-> t.prefixlen,
                   with_prefixlen  |-> t.network_with_prefixlen]]

\* the containment test comparing only the first seven groups
InNetwork_seven_groups(ip, network) ==
    \A i \in 1..7 : MaskGroup(ip, network.prefixlen, i) = network.network_address[i]

\* `address in network` (_BaseNetwork.__contains__)
InNetwork(ip, network) ==
    \A i \in 1..8 : MaskGroup(ip, network.prefixlen, i) = network.network_address[i]

\* _BaseNetwork.__lt__
NetworkLess(a, b) ==
    IF a.network_address # b.network_address
    THEN IpLess(a.network_address, b.network_address)
    ELSE a.prefixlen < b.prefixlen

\* _BaseNetwork.supernet_of, strictly: a contains b and a # b
StrictSupernet(a, b) ==
    /\ a.prefixlen < b.prefixlen
    /\ InNetwork(b.network_address, a)

(***************************************************************************)
(* ipv6decode.py: Block, B, the table and its operations.                  *)
(***************************************************************************)
\* Block(address_block, name, rfc, ...): the fields the program reads; the
\* dates and the registry flags that follow rfc are never read
Block(net, name, rfc) == [address_block |-> net, name |-> name, rfc |-> rfc]

\* B(addr, name, *args)
B(addr, name, rfc) ==
    LET a == IF ~Contains(addr, "/") THEN addr \o "/128" ELSE addr
        n == IPv6Network(a)
    IN  IF n.exc # "None" THEN [exc |-> n.exc]
        ELSE [exc |-> "None", block |-> Block(n.net, name, rfc)]

\* BlockLess with the name field compared before the address block
BlockLess_name_first(a, b) ==
    IF a.name # b.name THEN StrLess(a.name, b.name)
    ELSE IF a.address_block # b.address_block
    THEN NetworkLess(a.address_block, b.address_block)
    ELSE IF a.rfc # b.rfc THEN StrLess(a.rfc, b.rfc)
    ELSE FALSE

\* BlockLess with the names of one address block compared backwards
BlockLess_name_descending(a, b) ==
    IF a.address_block # b.address_block
    THEN NetworkLess(a.address_block, b.address_block)
    ELSE IF a.name # b.name THEN StrLess(b.name, a.name)
    ELSE IF a.rfc # b.rfc THEN StrLess(a.rfc, b.rfc)
    ELSE FALSE

\* tuple order of two Blocks, as list.sort() and sorted() compare them
BlockLess(a, b) ==
    IF a.address_block # b.address_block
    THEN NetworkLess(a.address_block, b.address_block)
    ELSE IF a.name # b.name THEN StrLess(a.name, b.name)
    ELSE IF a.rfc # b.rfc THEN StrLess(a.rfc, b.rfc)
    ELSE FALSE

\* sorted(...) / list.sort()
sorted(seq) == SortSeq(seq, BlockLess)

\* allocations = sorted((B(...), ...))
StaticAllocations ==
    sorted([i \in 1..Len(allocations_literal) |->
              B(allocations_literal[i][1], allocations_literal[i][2],
                allocations_literal[i][3]).block])

\* IP4, ULA, GUA = the address_block of the named entries
IP4 == IPv6Network("::ffff:0:0/96").net
ULA == IPv6Network("fc00::/7").net
GUA == IPv6Network("2000::/3").net

\* in_allocations(address): the first block whose text equals the query
RECURSIVE in_allocations_from(_, _, _)
in_allocations_from(table, text, i) ==
    IF i > Len(table) THEN None
    ELSE IF text = table[i].address_block.with_prefixlen THEN Some(table[i])
    ELSE in_allocations_from(table, text, i + 1)
in_allocations(table, addr) == in_allocations_from(table, lower(addr), 1)

\* add_new_allocation without the re-sort
add_new_allocation_unsorted(table, addr, name) ==
    LET b == B(addr, name, "") IN
    IF b.exc # "None" THEN [exc |-> b.exc, allocations |-> table]
    ELSE [exc |-> "None", allocations |-> Append(table, b.block)]

\* add_new_allocation storing over the last entry instead of appending
add_new_allocation_overwrite(table, addr, name) ==
    LET b == B(addr, name, "") IN
    IF b.exc # "None" THEN [exc |-> b.exc, allocations |-> table]
    ELSE [exc |-> "None",
          allocations |-> sorted([table EXCEPT ![Len(table)] = b.block])]

\* add_new_allocation(addr, name): append, then re-sort
add_new_allocation(table, addr, name) ==
    LET b == B(addr, name, "") IN
    IF b.exc # "None" THEN [exc |-> b.exc, allocations |-> table]
    ELSE [exc |-> "None", allocations |-> sorted(Append(table, b.block))]

(***************************************************************************)
(* whois.py: the RDAP client and its cache.  A WhoIs method takes the      *)
(* object and returns [exc, self]: the exception raised or "None", and the *)
(* object as the method left it.                                           *)
(***************************************************************************)
\* WhoIs.rdap_urls
rdap_urls ==
    <<"https://rdap.arin.net/registry/ip/",
      "https://rdap.db.ripe.net/ip/",
      "https://rdap.apnic.net/ip/",
      "https://rdap.afrinic.net/rdap/ip/">>

\* the ARIN RWS prefix of WhoIs._js_from_handle
rws_url == "https://whois.arin.net/rest/net/"

Services == {rdap_urls[i] : i \in 1..Len(rdap_urls)} \cup {rws_url}

\* What the network does during one WhoIs construction: every service
\* answers ("up"), cannot be connected to ("conn"), or answers with an
\* error status: 503 ("down"), 404 ("missing"), 429 ("limited"), 500
\* ("error").
AllUp == [s \in Services |-> "up"]
NetStates ==
    { AllUp,
      [AllUp EXCEPT ![rdap_urls[1]] = "down"],
      [s \in Services |-> "down"],
      [s \in Services |-> "conn"] }

\* the status code of a service that answers with an error
status_of(state) ==
    CASE state = "down"    -> 503
      [] state = "missing" -> 404
      [] state = "limited" -> 429
      [] state = "error"   -> 500

\* requests.get(url): the response, or the exception raised
rq_get(url, net) ==
    LET base == CHOOSE b \in Services : StartsWith(url, b)
        path == SubSeq(url, Len(base) + 1, Len(url))
        handle == SubSeq(path, 1, Len(path) - Len(".json"))
    IN  IF net[base] = "conn" THEN [exc |-> "ConnectionError"]
        ELSE IF net[base] # "up"
        THEN [exc |-> "None", status_code |-> status_of(net[base]), json |-> None]
        ELSE IF base = rws_url
        THEN IF handle \in DOMAIN RWS
             THEN [exc |-> "None", status_code |-> 200, json |-> Some(RWS[handle])]
             ELSE [exc |-> "None", status_code |-> 404, json |-> None]
        ELSE IF path \in DOMAIN RDAP
             THEN [exc |-> "None", status_code |-> 200, json |-> Some(RDAP[path])]
             ELSE [exc |-> "None", status_code |-> 404, json |-> None]

\* WhoIs.__init__, before the lookup
WhoIs_init ==
    [js |-> None, error |-> None, owner |-> None, handle |-> None,
     cidr |-> None, name |-> None, asn |-> None, parent |-> None]

\* WhoIs._org: the registry gives a record at most one entity, of kind org
WhoIs_org(js) ==
    IF js.entities = None THEN "no-organization"
    ELSE js.entities[1].handle \o " - " \o js.entities[1].fn

\* WhoIs._cidr
WhoIs_cidr(js) ==
    IF js.cidr0_cidrs = None
    THEN IF StartsWith(js.handle, "2") THEN js.handle ELSE "no-CIDR"
    ELSE js.cidr0_cidrs[1].v6prefix \o "/" \o ToString(js.cidr0_cidrs[1].length)

\* WhoIs._asn
WhoIs_asn(js) == js.autnums

\* WhoIs._parent
WhoIs_parent(js) == js.parentHandle

\* WhoIs.extract; the country and the re-casing of an all-upper-case owner
\* are left out, they reach neither the table nor the recursion
WhoIs_extract(self, js) ==
    [self EXCEPT !.js = Some(js), !.owner = Some(WhoIs_org(js)),
                 !.handle = Some(js.handle), !.cidr = Some(WhoIs_cidr(js)),
                 !.name = Some(js.name), !.asn = WhoIs_asn(js),
                 !.parent = WhoIs_parent(js)]

\* WhoIs.__bool__
WhoIs_bool(self) == self.js # None

\* WhoIs.from_ref; urls are the URLs requested, in order
WhoIs_from_ref(self, url, net) ==
    LET answered(response) ==
          IF response.exc # "None"
          THEN [exc |-> response.exc, self |-> self, urls |-> <<url>>]
          ELSE IF response.status_code = 200
          THEN [exc |-> "None", urls |-> <<url>>,
                self |-> WhoIs_extract([self EXCEPT !.error = None], response.json[1])]
          ELSE [exc |-> "None", urls |-> <<url>>,
                self |-> [self EXCEPT !.error = Some(response.status_code)]]
    IN  answered(rq_get(url, net))

\* WhoIs.from_ip: the services in order, until one leaves no error
RECURSIVE WhoIs_from_ip_from(_, _, _, _)
WhoIs_from_ip_from(self, ip_or_subnet, net, i) ==
    IF i > Len(rdap_urls) THEN [exc |-> "None", self |-> self, urls |-> <<>>]
    ELSE LET after(r, rest) == [rest EXCEPT !.urls = r.urls \o rest.urls]
             tried(r) ==
               IF r.exc # "None" THEN r
               ELSE IF r.self.error = None THEN r
               ELSE after(r, WhoIs_from_ip_from(r.self, ip_or_subnet, net, i + 1))
         IN  tried(WhoIs_from_ref(self, rdap_urls[i] \o ip_or_subnet, net))
\* WhoIs.from_ip asking the first service only
WhoIs_from_ip_first_only(self, ip_or_subnet, net) ==
    WhoIs_from_ref(self, rdap_urls[1] \o ip_or_subnet, net)

WhoIs_from_ip(self, ip_or_subnet, net) ==
    WhoIs_from_ip_from(self, ip_or_subnet, net, 1)

\* WhoIs.from_handle, with WhoIs._js_from_handle
WhoIs_from_handle(self, handle, net) ==
    LET url == rws_url \o handle \o ".json"
        ref(js) == IF EndsWith(js.rdapRef, ":")
                   THEN js.rdapRef \o "/" \o js.cidrLength ELSE js.rdapRef
        referred(js, r) ==
          IF r.exc # "None" THEN [r EXCEPT !.urls = <<url>> \o r.urls]
          ELSE IF Some(handle) = r.self.parent
          THEN [exc |-> "None", urls |-> <<url>> \o r.urls,
                self |-> [r.self EXCEPT !.parent = js.parentNetRef]]
          ELSE [r EXCEPT !.urls = <<url>> \o r.urls]
        answered(response) ==
          IF response.exc # "None"
          THEN [exc |-> response.exc, self |-> self, urls |-> <<url>>]
          ELSE IF response.status_code # 200
          THEN [exc |-> "None", urls |-> <<url>>,
                self |-> [self EXCEPT !.error = Some(response.status_code)]]
          ELSE referred(response.json[1],
                        WhoIs_from_ref(self, ref(response.json[1]), net))
    IN  answered(rq_get(url, net))

\* WhoIs(address)
WhoIs(addr, net) ==
    IF StartsWith(addr, "http") THEN WhoIs_from_ref(WhoIs_init, addr, net)
    ELSE IF StartsWith(addr, "NET") THEN WhoIs_from_handle(WhoIs_init, addr, net)
    ELSE WhoIs_from_ip(WhoIs_init, addr, net)

\* WhoIsCache._canonical_key
canonical_key(key) == IF StartsWith(key, "2") THEN lower(key) ELSE key

\* WhoIsCache.get
cache_get(c, key) ==
    IF canonical_key(key) \in DOMAIN c THEN Some(c[canonical_key(key)]) ELSE None

\* WhoIsCache.add storing the record under the key as given
cache_add_raw_key(c, key, w) ==
    IF WhoIs_bool(w)
    THEN [k \in DOMAIN c \cup {key} |-> IF k = key THEN w ELSE c[k]]
    ELSE c

\* WhoIsCache.add
cache_add(c, key, w) ==
    IF WhoIs_bool(w)
    THEN [k \in DOMAIN c \cup {canonical_key(key)} |->
            IF k = canonical_key(key) THEN w ELSE c[k]]
    ELSE c

\* whois_from_cache(address, refresh): [exc, whois, cache, urls]
whois_from_cache(c, addr, refresh, net) ==
    IF addr = "::/0"
    THEN [exc |-> "None", whois |-> None, cache |-> c, urls |-> <<>>]
    ELSE IF cache_get(c, addr) # None /\ WhoIs_bool(cache_get(c, addr)[1])
            /\ ~refresh
    THEN [exc |-> "None", whois |-> cache_get(c, addr), cache |-> c, urls |-> <<>>]
    ELSE LET looked_up(r) ==
               IF r.exc # "None"
               THEN [exc |-> r.exc, whois |-> None, cache |-> c, urls |-> r.urls]
               ELSE [exc |-> "None", whois |-> Some(r.self),
                     cache |-> cache_add(c, addr, r.self), urls |-> r.urls]
         IN  looked_up(WhoIs(addr, net))

(***************************************************************************)
(* ipv6decode.py: add_org and the per-address loop of __main__.            *)
(***************************************************************************)
\* the input lists: every sequence of at most MaxAddrs candidate strings
RECURSIVE SeqsUpTo(_, _)
SeqsUpTo(S, n) ==
    IF n = 0 THEN {<<>>}
    ELSE SeqsUpTo(S, n - 1) \cup
         {Append(s, x) : s \in {t \in SeqsUpTo(S, n - 1) : Len(t) = n - 1}, x \in S}

\* the options as argparse leaves them when none is given; the default of
\* --zero is one character (Gurmukhi digit zero), written "o" here
DefaultArgs == [sort |-> FALSE, exploded |-> FALSE, list |-> FALSE, zero |-> "o"]

\* the state at the start of __main__ for an input list and its options
Start(inputs, options) ==
    /\ allocations = StaticAllocations
    /\ cache = <<>>
    /\ addresses = inputs
    /\ args = options
    /\ idx = 1
    /\ pc = "args"
    /\ address = None
    /\ stack = <<>>
    /\ whois = None
    /\ chain = <<>>
    /\ exc = "None"
    /\ trace = <<>>
    /\ org_calls = 0
    /\ output = <<>>
    /\ rfcs = <<>>
    /\ requests = <<>>
    /\ proc = None
    /\ lint = None

\* the runs on the candidates of the whois scenarios: without options, or
\* with --list and at most one address
Init ==
    \/ \E inputs \in SeqsUpTo(Candidates, MaxAddrs) : Start(inputs, DefaultArgs)
    \/ \E inputs \in SeqsUpTo(Candidates, 1) :
         Start(inputs, [DefaultArgs EXCEPT !.list = TRUE])

\* the runs under every combination of --sort and --exploded, on the
\* candidates of the rendering cases
InitOptions ==
    \/ \E inputs \in SeqsUpTo(OptionCandidates, MaxAddrs) :
       \E options \in [sort : BOOLEAN, exploded : BOOLEAN, list : {FALSE},
                        zero : {DefaultArgs.zero}] : Start(inputs, options)
    \/ \E options \in [sort : BOOLEAN, exploded : BOOLEAN, list : {TRUE},
                        zero : {DefaultArgs.zero}] : Start(<<>>, options)

\* the values of --zero: every length from 0 to 5
ZeroValues == {"", "0", "ab", "abc", "abcd", "abcde"}

\* the candidates of the runs over every option
ArgCandidates == {"not-an-address", "::1", "fe80::1234:56ff:ff78:9abc", "2c0f:f000::1"}

\* the runs under every combination of the options
InitArgs ==
    \/ \E inputs \in SeqsUpTo(ArgCandidates, MaxAddrs) :
       \E options \in [sort : BOOLEAN, exploded : BOOLEAN, list : {FALSE},
                        zero : ZeroValues] : Start(inputs, options)
    \/ \E inputs \in SeqsUpTo(ArgCandidates, 1) :
       \E options \in [sort : BOOLEAN, exploded : {FALSE}, list : {TRUE},
                        zero : ZeroValues] : Start(inputs, options)

\* parse_args, lines 35-38: args.zero repeated four times when shorter than
\* 4 characters, then cut to 4 when longer
fit_zero(zero) ==
    LET z == IF Len(zero) < 4 THEN zero \o zero \o zero \o zero ELSE zero
    IN  IF Len(z) > 4 THEN SubSeq(z, 1, 4) ELSE z

\* parse_args, lines 78-79: the key of --sort is the exploded text of the
\* parsed input
sort_key(a) == IPv6Interface(a).exploded

\* the exception of the first input IPv6Interface rejects, or "None"
RECURSIVE first_invalid(_, _)
first_invalid(addrs, i) ==
    IF i > Len(addrs) THEN "None"
    ELSE IF IPv6Interface(addrs[i]).exc # "None" THEN IPv6Interface(addrs[i]).exc
    ELSE first_invalid(addrs, i + 1)

\* parse_args as far as it touches args.zero and args.addresses:
\* [exc, addresses, zero].  The key function runs on every input, outside
\* any try.
parse_args(options, addrs) ==
    IF ~options.sort
    THEN [exc |-> "None", addresses |-> addrs, zero |-> fit_zero(options.zero)]
    ELSE IF first_invalid(addrs, 1) # "None"
    THEN [exc |-> first_invalid(addrs, 1), addresses |-> addrs,
          zero |-> fit_zero(options.zero)]
    ELSE [exc |-> "None", zero |-> fit_zero(options.zero),
          addresses |-> SortSeq(addrs, LAMBDA x, y : StrLess(sort_key(x), sort_key(y)))]

\* args = parse_args()
ParseArgs ==
    /\ pc = "args"
    /\ LET r == parse_args(args, addresses) IN
       IF r.exc # "None"
       THEN /\ pc' = "aborted"
            /\ exc' = r.exc
            /\ UNCHANGED <<addresses, args>>
       ELSE /\ pc' = IF args.list THEN "list" ELSE "loop"
            /\ exc' = exc
            /\ addresses' = r.addresses
            /\ args' = [args EXCEPT !.zero = r.zero]
    /\ UNCHANGED <<allocations, cache, idx, address, stack, whois, chain,
                   trace, org_calls, output, rfcs, requests>>
    /\ UNCHANGED aside

\* the description add_org gives a discovered block
desc(w) ==
    IF w.asn # None
    THEN w.name[1] \o ": " \o w.owner[1] \o " (ASN " \o w.asn[1] \o ")"
    ELSE w.name[1] \o ": " \o w.owner[1]

\* for block in allocations: if address in block.address_block: ...
RECURSIVE scan_from(_, _, _)
scan_from(table, ip, i) ==
    IF i > Len(table) THEN <<>>
    ELSE IF InNetwork(ip, table[i].address_block)
         THEN <<table[i]>> \o scan_from(table, ip, i + 1)
         ELSE scan_from(table, ip, i + 1)
\* the scan leaving its loop at the first containing block
scan_first_match(table, ip) ==
    IF scan_from(table, ip, 1) = <<>> THEN <<>>
    ELSE <<scan_from(table, ip, 1)[1]>>

\* the scan keeping only the last containing block
scan_deepest_only(table, ip) ==
    IF scan_from(table, ip, 1) = <<>> THEN <<>>
    ELSE <<scan_from(table, ip, 1)[Len(scan_from(table, ip, 1))]>>

scan(table, ip) == scan_from(table, ip, 1)

\* NextAddress calling add_org without the test `address in GUA`
NextAddress_unconditional ==
    /\ pc = "loop"
    /\ idx <= Len(addresses)
    /\ LET a == IPv6Interface(addresses[idx]) IN
       IF a.exc # "None"
       THEN /\ output' = Append(output, [kind |-> "invalid", input |-> addresses[idx]])
            /\ idx' = idx + 1
            /\ UNCHANGED <<pc, address, stack, trace, org_calls>>
       ELSE /\ address' = Some(a)
            /\ trace' = <<>>
            /\ stack' = <<a.with_prefixlen>>
            /\ org_calls' = 1
            /\ pc' = "lookup"
            /\ UNCHANGED <<idx, output>>
    /\ UNCHANGED <<allocations, cache, addresses, whois, chain, exc, args,
                   rfcs, requests>>
    /\ UNCHANGED aside

\* for address in args.addresses: parse it; a valid address in GUA calls
\* add_org(address.with_prefixlen)
NextAddress ==
    /\ pc = "loop"
    /\ idx <= Len(addresses)
    /\ LET a == IPv6Interface(addresses[idx]) IN
       IF a.exc # "None"
       THEN /\ output' = Append(output, [kind |-> "invalid", input |-> addresses[idx]])
            /\ idx' = idx + 1
            /\ UNCHANGED <<pc, address, stack, trace, org_calls>>
       ELSE /\ address' = Some(a)
            /\ trace' = <<>>
            /\ IF InNetwork(a.ip, GUA)
               THEN /\ stack' = <<a.with_prefixlen>>
                    /\ org_calls' = 1
                    /\ pc' = "lookup"
               ELSE /\ stack' = <<>>
                    /\ org_calls' = 0
                    /\ pc' = "scan"
            /\ UNCHANGED <<idx, output>>
    /\ UNCHANGED <<allocations, cache, addresses, whois, chain, exc, args,
                   rfcs, requests>>
    /\ UNCHANGED aside

\* add_org, line 117: whois = whois_from_cache(address)
Lookup ==
    /\ pc = "lookup"
    /\ \E net \in NetStates :
         \E r \in {whois_from_cache(cache, stack[Len(stack)], FALSE, net)} :
         /\ requests' = r.urls
         /\ IF r.exc # "None"
            THEN /\ pc' = "aborted"
                 /\ exc' = r.exc
                 /\ UNCHANGED <<whois, cache>>
            ELSE /\ pc' = "add_org"
                 /\ whois' = r.whois
                 /\ cache' = r.cache
                 /\ exc' = exc
    /\ trace' = Append(trace, stack[Len(stack)])
    /\ UNCHANGED <<allocations, addresses, idx, address, stack, chain,
                   org_calls, output, args, rfcs>>
    /\ UNCHANGED aside

\* the parent add_org recurses on: [exc, parent], parent None to stop
add_org_parent(w) ==
    IF w.parent = None \/ w.parent[1] = "" THEN [exc |-> "None", parent |-> None]
    ELSE IF StartsWith(w.parent[1], "NET")
    THEN [exc |-> "None", parent |-> w.parent]
    ELSE LET p == IPv6Interface(w.parent[1]) IN
         IF p.exc = "AddressValueError" THEN [exc |-> "None", parent |-> None]
         ELSE IF p.exc # "None" THEN [exc |-> p.exc, parent |-> None]
         ELSE [exc |-> "None", parent |-> Some(p.with_prefixlen)]

\* the insertion of add_org, lines 119-127: [exc, allocations]
add_org_insert(table, w) ==
    IF in_allocations(table, w.cidr[1]) # None
    THEN [exc |-> "None", allocations |-> table]
    ELSE add_new_allocation(table, w.cidr[1], desc(w))

\* add_org, lines 118-140, with the record the lookup returned.  The
\* recursive call is the last statement of every frame, so a return
\* unwinds to __main__.
AddOrg ==
    /\ pc = "add_org"
    /\ IF whois = None \/ ~WhoIs_bool(whois[1])
       THEN /\ pc' = "scan"
            /\ stack' = <<>>
            /\ UNCHANGED <<allocations, exc>>
       ELSE LET ins == add_org_insert(allocations, whois[1])
                par == add_org_parent(whois[1])
            IN  IF ins.exc # "None"
                THEN /\ pc' = "aborted"
                     /\ exc' = ins.exc
                     /\ UNCHANGED <<allocations, stack>>
                ELSE /\ allocations' = ins.allocations
                     /\ IF par.exc # "None"
                        THEN /\ pc' = "aborted"
                             /\ exc' = par.exc
                             /\ stack' = stack
                        ELSE IF par.parent = None
                        THEN /\ pc' = "scan"
                             /\ stack' = <<>>
                             /\ exc' = exc
                        ELSE IF Len(stack) >= RecursionLimit
                        THEN /\ pc' = "aborted"
                             /\ exc' = "RecursionError"
                             /\ stack' = stack
                        ELSE /\ pc' = "lookup"
                             /\ stack' = Append(stack, par.parent[1])
                             /\ exc' = exc
    /\ UNCHANGED <<cache, addresses, idx, address, whois, chain, trace,
                   org_calls, output, args, rfcs, requests>>
    /\ UNCHANGED aside

(***************************************************************************)
(* The rendering of one address, lines 407-537.  What is printed is kept   *)
(* as the sequence of its labelled items: the label, the text printed with *)
(* it, the positions of the address bits drawn under it (bit 0 is the most *)
(* significant) and the width the label announces.  Column padding, the    *)
(* dotted leaders, the binary reference row and the host description of    *)
(* the MAC (arp_data.json, mac2mfg) are not kept.                          *)
(***************************************************************************)
Field(label, text, bits, width) ==
    [label |-> label, text |-> text, bits |-> bits, width |-> width]

\* s[i:j] of Python for 0 <= i <= j, j cut at the length
Slice(s, i, j) == SubSeq(s, i + 1, IF j > Len(s) THEN Len(s) ELSE j)

\* f'{i:02x}'
HexDigit(n) == SubSeq("0123456789abcdef", n + 1, n + 1)
Hex2(n) == HexDigit(n \div 16) \o HexDigit(n % 16)

\* host(ipv6): ipv6.exploded[20:][:19]
host(a) == Slice(Slice(a.exploded, 20, Len(a.exploded)), 0, 19)

\* bars(n_bits, start, c='|', ofs): column i of the row is blank when
\* `start and i < start`, else it shows the digit of bin_rep at i + ofs;
\* the result is the set of address bits shown
bars(n_bits, start, ofs) ==
    {i + ofs : i \in {k \in 0..(n_bits - 1) : ~(start # 0 /\ k < start)}}

\* the rows of the containing blocks: one per block of the chain; in the
\* bit-field diagram bars(prefixlen, pl) and l = prefixlen - pl
RECURSIVE block_fields(_, _, _, _)
block_fields(ch, k, pl, exploded) ==
    IF k > Len(ch) THEN <<>>
    ELSE LET n == ch[k].address_block.prefixlen IN
         <<Field("block", ch[k].name,
                 IF exploded THEN bars(n, pl, 0) ELSE {},
                 IF exploded THEN n - pl ELSE 0)>>
           \o block_fields(ch, k + 1, n, exploded)

\* pl after the loop over the table: the prefix length of the last block
\* of the chain, 0 when no block contains the address
final_pl(ch) == IF ch = <<>> THEN 0 ELSE ch[Len(ch)].address_block.prefixlen

\* the Global ID and Subnet ID rows drawn from bit 7 on
ula_fields_from_marker(a, exploded) ==
    IF ~InNetwork(a.ip, ULA) THEN <<>>
    ELSE IF exploded
    THEN <<Field("GID", "", bars(47, 7, 0), 40), Field("SID", "", bars(63, 47, 0), 16)>>
    ELSE <<Field("GID", Slice(a.exploded, 1, 13), {}, 40),
           Field("SID", Slice(a.exploded, 14, 18), {}, 16)>>

\* `if address in ULA:` of both renderings, lines 420-425 and 482-488
ula_fields(a, exploded) ==
    IF ~InNetwork(a.ip, ULA) THEN <<>>
    ELSE IF exploded
    THEN <<Field("GID", "", bars(48, 8, 0), 40), Field("SID", "", bars(64, 48, 0), 16)>>
    ELSE <<Field("GID", Slice(a.exploded, 2, 14), {}, 40),
           Field("SID", Slice(a.exploded, 15, 19), {}, 16)>>

\* the Subnet ID row printed whatever pl is
subnet_fields_any_pl(a, pl) ==
    IF InNetwork(a.ip, ULA) THEN <<>>
    ELSE <<Field("SID", "", bars(64, pl, 0), 64 - pl)>>

\* `elif pl <= 64:` of the bit-field diagram, lines 489-490
subnet_fields(a, pl) ==
    IF InNetwork(a.ip, ULA) \/ pl > 64 THEN <<>>
    ELSE <<Field("SID", "", bars(64, pl, 0), 64 - pl)>>

\* str(ipaddress.IPv4Address(address._ip & 0xFFFF_FFFF))
str_ip4(ip) ==
    ToString(ip[7] \div 256) \o "." \o ToString(ip[7] % 256) \o "." \o
    ToString(ip[8] \div 256) \o "." \o ToString(ip[8] % 256)

\* the rows under the binary row with the Interface ID also for pl = 0
tail_fields_iid_first(a, pl) ==
    IF pl <= 64 THEN <<Field("IID", "", bars(64, 0, 64), 64)>>
    ELSE IF InNetwork(a.ip, IP4)
    THEN <<Field("IPv4", str_ip4(a.ip), bars(32, 0, 96), 32)>>
    ELSE <<>>

\* the rows under the binary row of the bit-field diagram, lines 494-501
tail_fields(a, pl) ==
    IF pl = 0
    THEN <<Field("unknown", "Address in unknown or unassigned block", {}, 0)>>
    ELSE IF pl <= 64 THEN <<Field("IID", "", bars(64, 0, 64), 64)>>
    ELSE IF InNetwork(a.ip, IP4)
    THEN <<Field("IPv4", str_ip4(a.ip), bars(32, 0, 96), 32)>>
    ELSE <<>>

\* (address._ip & eui64_mask) == eui64_mask with eui64_mask 0x00FF_FE00_0000:
\* the low byte of group 6 is 0xFF and bits 9..15 of group 7 are ones
eui64_test(ip) == ip[6] % 256 = 255 /\ ip[7] \div 512 = 127

\* hi without the exclusive-or
eui64_hi_kept(ip) == ip[5] * 256 + ip[6] \div 256

\* hi = ((address._ip & 0xFFFF_FF00_0000_0000) >> 40) ^ 0x02_0000
eui64_hi(ip) ==
    LET hi == ip[5] * 256 + ip[6] \div 256 IN
    IF (hi \div 131072) % 2 = 1 THEN hi - 131072 ELSE hi + 131072

\* lo = address._ip & 0x0000_0000_00FF_FFFF
eui64_lo(ip) == (ip[7] % 256) * 65536 + ip[8]

\* ((hi << 24) + lo).to_bytes(6, 'big')
to_bytes(hi, lo) ==
    <<hi \div 65536, (hi \div 256) % 256, hi % 256,
      lo \div 65536, (lo \div 256) % 256, lo % 256>>

\* mac = ':'.join(f'{i:02x}' for i in nn.to_bytes(6, 'big'))
mac(ip) ==
    LET b == to_bytes(eui64_hi(ip), eui64_lo(ip)) IN
    Hex2(b[1]) \o ":" \o Hex2(b[2]) \o ":" \o Hex2(b[3]) \o ":" \o
    Hex2(b[4]) \o ":" \o Hex2(b[5]) \o ":" \o Hex2(b[6])

\* the EUI-64 rows, lines 503-537; level is the number of block rows of
\* the hierarchical rendering
eui64_fields(a, exploded, level) ==
    IF ~eui64_test(a.ip) THEN <<>>
    ELSE IF exploded \/ level # 0
    THEN <<Field("EUI64", Slice(a.exploded, 20, Len(a.exploded) - 4), {},
                 IF exploded THEN 64 ELSE 0),
           Field("EUI48", mac(a.ip), {}, 0)>>
    ELSE <<>>

\* the hierarchical rendering, lines 410-433
hierarchical(a, ch) ==
    block_fields(ch, 1, 0, FALSE)
      \o ula_fields(a, FALSE)
      \o <<Field("IID", host(a), {}, 64)>>
      \o (IF Len(ch) = 0
          THEN <<Field("unknown", "Address in unknown or unassigned block", {}, 0)>>
          ELSE <<>>)

\* the bit-field diagram, lines 435-501
exploded_diagram(a, ch) ==
    block_fields(ch, 1, 0, TRUE)
      \o ula_fields(a, TRUE)
      \o subnet_fields(a, final_pl(ch))
      \o tail_fields(a, final_pl(ch))

\* everything printed for one valid address
render(a, ch, exploded) ==
    (IF exploded THEN exploded_diagram(a, ch) ELSE hierarchical(a, ch))
      \o eui64_fields(a, exploded, Len(ch))

\* bit i of the address, bit 0 the most significant
Bit(ip, i) == (ip[i \div 16 + 1] \div Pow2(15 - (i % 16))) % 2

\* bars, line 463: `args.zero[0]` is evaluated at every column of the row
\* whose digit in bin_rep is '0', blank columns included, and raises
\* IndexError when args.zero is empty
bars_raises(zero, ip, n_bits, ofs) ==
    zero = "" /\ \E i \in ofs..(ofs + n_bits - 1) : Bit(ip, i) = 0

\* the first block of the chain whose row cannot be drawn, 0 when none
RECURSIVE first_raising_block(_, _, _, _)
first_raising_block(zero, ip, ch, k) ==
    IF k > Len(ch) THEN 0
    ELSE IF bars_raises(zero, ip, ch[k].address_block.prefixlen, 0) THEN k
    ELSE first_raising_block(zero, ip, ch, k + 1)

\* the calls of bars after the loop over the table, in order: <<n_bits, ofs>>
bars_after_loop(a, pl) ==
    (IF InNetwork(a.ip, ULA) THEN <<<<48, 0>>, <<64, 0>>>>
     ELSE IF pl <= 64 THEN <<<<64, 0>>>> ELSE <<>>)
    \o (IF pl = 0 THEN <<>>
        ELSE IF pl <= 64 THEN <<<<40, 0>>, <<64, 64>>>>
        ELSE IF InNetwork(a.ip, IP4) THEN <<<<77, 0>>, <<32, 96>>, <<pl, 0>>>>
        ELSE <<>>)
    \o (IF eui64_test(a.ip) THEN <<<<41, 0>>>> ELSE <<>>)

\* the exception the rendering raises, or "None"
render_exc(a, ch, options) ==
    IF ~options.exploded THEN "None"
    ELSE IF first_raising_block(options.zero, a.ip, ch, 1) # 0 THEN "IndexError"
    ELSE IF \E c \in 1..Len(bars_after_loop(a, final_pl(ch))) :
              bars_raises(options.zero, a.ip, bars_after_loop(a, final_pl(ch))[c][1],
                          bars_after_loop(a, final_pl(ch))[c][2])
    THEN "IndexError"
    ELSE "None"

\* the number of blocks of the chain the loop over the table gets to
reached(a, ch, options) ==
    IF options.exploded /\ first_raising_block(options.zero, a.ip, ch, 1) # 0
    THEN first_raising_block(options.zero, a.ip, ch, 1)
    ELSE Len(ch)

\* set(block.rfc.split()): the words of the rfc field
RECURSIVE split_from(_, _, _)
split_from(text, i, word) ==
    IF i > Len(text) THEN (IF word = "" THEN {} ELSE {word})
    ELSE IF SubSeq(text, i, i) = " "
    THEN (IF word = "" THEN {} ELSE {word}) \cup split_from(text, i + 1, "")
    ELSE split_from(text, i + 1, word \o SubSeq(text, i, i))
split(text) == split_from(text, 1, "")

\* The dict rfcs is kept as the sequence of its items, in insertion order:
\* [rfc, names].  The position of an RFC among the keys, 0 when absent:
RECURSIVE rfc_index(_, _, _)
rfc_index(d, rfc, i) ==
    IF i > Len(d) THEN 0
    ELSE IF d[i].rfc = rfc THEN i
    ELSE rfc_index(d, rfc, i + 1)

\* rfcs[rfc], the empty list when the RFC is not a key
rfc_names(d, rfc) ==
    IF rfc_index(d, rfc, 1) = 0 THEN <<>> ELSE d[rfc_index(d, rfc, 1)].names

\* the items of the RFCs that become keys, each with the list [name]
RECURSIVE new_items(_, _)
new_items(words, name) ==
    IF words = {} THEN <<>>
    ELSE LET rfc == CHOOSE w \in words : TRUE
         IN  <<[rfc |-> rfc, names |-> <<name>>]>> \o new_items(words \ {rfc}, name)

\* add_rfc(rfcs, block), lines 350-356, for every rfc of
\* set(block.rfc.split()): a key whose list does not hold block.name yet
\* gets the name appended; in every other case rfcs[rfc] = [block.name]
add_rfc(d, block) ==
    LET words == split(block.rfc)
        keys  == {d[i].rfc : i \in 1..Len(d)}
    IN  [i \in 1..Len(d) |->
           IF d[i].rfc \notin words THEN d[i]
           ELSE IF \A k \in 1..Len(d[i].names) : d[i].names[k] # block.name
           THEN [d[i] EXCEPT !.names = Append(d[i].names, block.name)]
           ELSE [d[i] EXCEPT !.names = <<block.name>>]]
          \o new_items(words \ keys, block.name)

\* add_rfc applied to blocks k..n of a sequence, in order
RECURSIVE add_rfcs(_, _, _, _)
add_rfcs(d, blocks, k, n) ==
    IF k > n THEN d
    ELSE LET before == add_rfcs(d, blocks, k, n - 1) IN add_rfc(before, blocks[n])

\* the scan of the table for the current address and its rendering
Scan ==
    /\ pc = "scan"
    /\ LET full == scan(allocations, address[1].ip)
           n    == reached(address[1], full, args)
       IN  /\ chain' = SubSeq(full, 1, n)
           /\ rfcs' = add_rfcs(rfcs, full, 1, n)
           /\ IF render_exc(address[1], full, args) # "None"
              THEN /\ pc' = "aborted"
                   /\ exc' = render_exc(address[1], full, args)
                   /\ UNCHANGED <<output, idx>>
              ELSE /\ output' = Append(output,
                                       [kind |-> "chain", input |-> addresses[idx],
                                        chain |-> full,
                                        fields |-> render(address[1], full, args.exploded)])
                   /\ idx' = idx + 1
                   /\ pc' = "loop"
                   /\ exc' = exc
    /\ UNCHANGED <<allocations, cache, addresses, address, stack, whois,
                   trace, org_calls, args, requests>>
    /\ UNCHANGED aside

\* _BaseNetwork.supernet_of: a contains b, or a equals b
supernet_of(a, b) ==
    a.prefixlen <= b.prefixlen /\ InNetwork(b.network_address, a)

\* dump, lines 331-332: while stack and not stack[-1].supernet_of(addr):
\* stack.pop()
RECURSIVE pop_stack(_, _)
pop_stack(stk, addr) ==
    IF stk # <<>> /\ ~supernet_of(stk[Len(stk)], addr)
    THEN pop_stack(SubSeq(stk, 1, Len(stk) - 1), addr)
    ELSE stk

\* the loop of dump from block i on: one row per block, with the stack as
\* the pops leave it, before the block is pushed; its length is the number
\* of '| ' the row is indented by
RECURSIVE dump_from(_, _, _)
dump_from(table, i, stk) ==
    IF i > Len(table) THEN <<>>
    ELSE LET addr == table[i].address_block
             open == pop_stack(stk, addr)
         IN  <<[block |-> table[i], stack |-> open]>>
               \o dump_from(table, i + 1, Append(open, addr))

\* dump(short_addresses): the rows it prints
dump(table) == dump_from(table, 1, <<>>)

\* `if args.list: dump(short_addresses)`, one pass of the loop of dump,
\* lines 328-342.  No address is processed in such a run, and the locals
\* of dump are kept in the variables of their names in __main__: stack,
\* rfcs, and idx for the position in the table.  The row printed is kept
\* with the number of '| ' it is indented by.
DumpBlock ==
    /\ pc = "list"
    /\ idx <= Len(allocations)
    /\ LET block == allocations[idx]
           open  == pop_stack(stack, block.address_block)
       IN  /\ rfcs' = add_rfc(rfcs, block)
           /\ stack' = Append(open, block.address_block)
           /\ output' = Append(output, [kind |-> "row", block |-> block,
                                        indent |-> Len(open)])
    /\ idx' = idx + 1
    /\ UNCHANGED <<allocations, cache, addresses, pc, address, whois, chain,
                   exc, trace, org_calls, args, requests>>
    /\ UNCHANGED aside

\* the end of dump: raise SystemExit
DumpExit ==
    /\ pc = "list"
    /\ idx > Len(allocations)
    /\ pc' = "done"
    /\ UNCHANGED <<allocations, cache, addresses, idx, address, stack, whois,
                   chain, exc, trace, org_calls, output, args, rfcs, requests>>
    /\ UNCHANGED aside

\* the loop is exhausted: the program ends
Finish ==
    /\ pc = "loop"
    /\ idx > Len(addresses)
    /\ pc' = "done"
    /\ UNCHANGED <<allocations, cache, addresses, idx, address, stack, whois,
                   chain, exc, trace, org_calls, output, args, rfcs, requests>>
    /\ UNCHANGED aside

Next ==
    ParseArgs \/ DumpBlock \/ DumpExit \/ NextAddress \/ Lookup \/ AddOrg \/ Scan \/ Finish

Spec == Init /\ [][Next]_vars

SpecOptions == InitOptions /\ [][Next]_vars

SpecArgs == InitArgs /\ [][Next]_vars

(***************************************************************************)
(* whois.py run as a program, lines 588-665: every address, subnet or      *)
(* handle of the command line is looked up through whois_from_cache and    *)
(* the record is printed.  The cache is the one of the process: it starts  *)
(* empty (no /tmp/whois.db).  --dump and --test are not modelled.  The     *)
(* variables addresses, idx, pc, args, cache, whois, requests, exc and     *)
(* output are those of this program; the others rest.                      *)
(***************************************************************************)
\* what the network does during one lookup of the command: the states of
\* add_org's lookups, and three where the services differ
WhoisNetStates ==
    NetStates \cup
    { [AllUp EXCEPT ![rdap_urls[1]] = "down", ![rdap_urls[2]] = "missing",
                   ![rdap_urls[3]] = "error", ![rdap_urls[4]] = "limited"],
      [AllUp EXCEPT ![rdap_urls[1]] = "down", ![rdap_urls[2]] = "missing",
                   ![rdap_urls[4]] = "limited"],
      [AllUp EXCEPT ![rdap_urls[1]] = "limited", ![rdap_urls[2]] = "error",
                   ![rdap_urls[3]] = "missing"] }

\* the start of whois.py for a list of keys, with or without --refresh
InitWhois ==
    \E inputs \in SeqsUpTo(WhoisKeys, MaxAddrs) \ {<<>>} :
    \E refresh \in BOOLEAN :
      /\ allocations = <<>>
      /\ cache = <<>>
      /\ addresses = inputs
      /\ args = [refresh |-> refresh]
      /\ idx = 1
      /\ pc = "whois"
      /\ address = None
      /\ stack = <<>>
      /\ whois = None
      /\ chain = <<>>
      /\ exc = "None"
      /\ trace = <<>>
      /\ org_calls = 0
      /\ output = <<>>
      /\ rfcs = <<>>
      /\ requests = <<>>
      /\ proc = None
      /\ lint = None

\* for ip in args.addresses: whois = whois_from_cache(ip, args.refresh),
\* then the record or its error is printed; net is what the network did
WhoisLookup ==
    /\ pc = "whois"
    /\ idx <= Len(addresses)
    /\ \E net \in WhoisNetStates :
         \E r \in {whois_from_cache(cache, addresses[idx], args.refresh, net)} :
         /\ requests' = r.urls
         /\ IF r.exc # "None"
            THEN /\ pc' = "aborted"
                 /\ exc' = r.exc
                 /\ UNCHANGED <<whois, cache, output, idx>>
            ELSE /\ whois' = r.whois
                 /\ cache' = r.cache
                 /\ output' = Append(output, [kind |-> "whois", key |-> addresses[idx],
                                              whois |-> r.whois, urls |-> r.urls,
                                              net |-> net])
                 /\ idx' = idx + 1
                 /\ UNCHANGED <<pc, exc>>
    /\ UNCHANGED <<allocations, addresses, address, stack, chain, trace,
                   org_calls, args, rfcs>>
    /\ UNCHANGED aside

\* the loop is exhausted: the program ends
WhoisFinish ==
    /\ pc = "whois"
    /\ idx > Len(addresses)
    /\ pc' = "done"
    /\ UNCHANGED <<allocations, cache, addresses, idx, address, stack, whois,
                   chain, exc, trace, org_calls, output, args, rfcs, requests>>
    /\ UNCHANGED aside

NextWhois == WhoisLookup \/ WhoisFinish

SpecWhois == InitWhois /\ [][NextWhois]_vars

(***************************************************************************)
(* The variables of ipv6decode.py and whois.py while another program of    *)
(* the repository runs: nothing of them is in use.                         *)
(***************************************************************************)
MainAtRest ==
    /\ allocations = <<>>
    /\ cache = <<>>
    /\ addresses = <<>>
    /\ args = DefaultArgs
    /\ idx = 1
    /\ pc = "done"
    /\ address = None
    /\ stack = <<>>
    /\ whois = None
    /\ chain = <<>>
    /\ exc = "None"
    /\ trace = <<>>
    /\ org_calls = 0
    /\ output = <<>>
    /\ rfcs = <<>>
    /\ requests = <<>>

main == <<allocations, cache, addresses, idx, pc, address, stack, whois, chain,
          exc, trace, org_calls, output, args, rfcs, requests>>

(***************************************************************************)
(* execute.py: get_status_output(cmd, limit=...), lines 9-50.  proc holds  *)
(* one call and its subprocess:                                            *)
(*   pc         where the call is: "communicate" (line 36, reading the     *)
(*              pipe), "comm_wait" (line 36, the pipe is at its end and    *)
(*              communicate waits for the exit), "tail" (line 40), "wait"  *)
(*              (line 47), "returned" (line 50)                            *)
(*   limit      the limit argument, in seconds, or None                    *)
(*   elapsed    the seconds since communicate was called                   *)
(*   remaining  the time communicate had left for its wait, once computed *)
(*   child      "running" or "exited"; returncode, its exit status         *)
(*   writes     how many chunks the subprocess has written                 *)
(*   pipe       the chunks written to the pipe and not yet read            *)
(*   open       the subprocess still holds the write end of the pipe       *)
(*   closed     process.stdout.closed                                      *)
(*   captured   what communicate has read                                  *)
(*   expired    TimeoutExpired was raised and caught (line 37)             *)
(*   stdout_txt, status   the locals of these names, None while unset      *)
(***************************************************************************)
MaxLimit == 2
MaxWrites == 2

\* the chunks a subprocess writes, and its exit statuses
Chunks == {"a", "b \r\n"}
Codes == {0, 7}

\* the limits of a call: none, or a number of seconds
Limits == {None} \cup {Some(n) : n \in 1..MaxLimit}

\* line 34: the subprocess is started, its stdout a pipe
InitExecute ==
    /\ MainAtRest
    /\ lint = None
    /\ \E limit \in Limits :
         proc = Some([pc |-> "communicate", limit |-> limit, elapsed |-> 0,
                      remaining |-> None, child |-> "running", returncode |-> None,
                      writes |-> 0, pipe |-> <<>>, open |-> TRUE, closed |-> FALSE,
                      captured |-> "", expired |-> FALSE,
                      stdout_txt |-> None, status |-> None])

\* str(exc) of subprocess.TimeoutExpired(cmd, timeout)
TimeoutMessage(timeout) ==
    "Command 'cmd' timed out after " \o ToString(timeout) \o " seconds"

\* the chunks of a pipe as one text
RECURSIVE read_all(_)
read_all(pipe) ==
    IF pipe = <<>> THEN "" ELSE Head(pipe) \o read_all(Tail(pipe))

\* text.replace('\r', ''), from character i on
RECURSIVE replace_cr_from(_, _)
replace_cr_from(text, i) ==
    IF i > Len(text) THEN ""
    ELSE (IF SubSeq(text, i, i) = "\r" THEN "" ELSE SubSeq(text, i, i))
           \o replace_cr_from(text, i + 1)

replace_cr(text) == replace_cr_from(text, 1)

\* text.rstrip() of the first n characters: the white space at the end is
\* removed
RECURSIVE rstrip_to(_, _)
rstrip_to(text, n) ==
    IF n = 0 THEN ""
    ELSE IF SubSeq(text, n, n) \in {" ", "\t", "\n", "\r", "\f"}
    THEN rstrip_to(text, n - 1)
    ELSE SubSeq(text, 1, n)

rstrip(text) == rstrip_to(text, Len(text))

\* the end time of communicate has passed (subprocess._check_timeout)
past_limit(p) == p.limit # None /\ p.elapsed > p.limit[1]

\* the subprocess writes a chunk to its stdout
ChildWrite ==
    /\ proc # None
    /\ proc[1].child = "running" /\ proc[1].open
    /\ proc[1].writes < MaxWrites
    /\ \E chunk \in Chunks :
         proc' = Some([proc[1] EXCEPT !.pipe = Append(@, chunk), !.writes = @ + 1])
    /\ UNCHANGED <<main, lint>>

\* the subprocess closes its stdout and goes on running
ChildClose ==
    /\ proc # None
    /\ proc[1].child = "running" /\ proc[1].open
    /\ proc' = Some([proc[1] EXCEPT !.open = FALSE])
    /\ UNCHANGED <<main, lint>>

\* the subprocess exits on its own
ChildExit ==
    /\ proc # None
    /\ proc[1].child = "running"
    /\ \E code \in Codes :
         proc' = Some([proc[1] EXCEPT !.child = "exited", !.returncode = Some(code),
                                      !.open = FALSE])
    /\ UNCHANGED <<main, lint>>

\* a second passes while communicate runs with a limit; the clock is not
\* read once the end time has passed
Tick ==
    /\ proc # None
    /\ proc[1].pc \in {"communicate", "comm_wait"}
    /\ proc[1].limit # None /\ ~past_limit(proc[1])
    /\ proc' = Some([proc[1] EXCEPT !.elapsed = @ + 1])
    /\ UNCHANGED <<main, lint>>

\* line 36, communicate: a chunk is read from the pipe before the end time
CommunicateRead ==
    /\ proc # None
    /\ proc[1].pc = "communicate" /\ ~past_limit(proc[1])
    /\ proc[1].pipe # <<>>
    /\ proc' = Some([proc[1] EXCEPT !.captured = @ \o Head(proc[1].pipe),
                                    !.pipe = Tail(@)])
    /\ UNCHANGED <<main, lint>>

\* line 36, communicate: the pipe is at its end; stdout is closed and the
\* exit is waited for during the time that remains
CommunicateEOF ==
    /\ proc # None
    /\ proc[1].pc = "communicate" /\ ~past_limit(proc[1])
    /\ proc[1].pipe = <<>> /\ ~proc[1].open
    /\ proc' = Some([proc[1] EXCEPT
                       !.pc = "comm_wait", !.closed = TRUE,
                       !.remaining = IF proc[1].limit = None THEN None
                                     ELSE Some(proc[1].limit[1] - proc[1].elapsed)])
    /\ UNCHANGED <<main, lint>>

\* line 36, communicate returns what it has read: the subprocess has exited
CommunicateReturn ==
    /\ proc # None
    /\ proc[1].pc = "comm_wait"
    /\ proc[1].child = "exited"
    /\ proc' = Some([proc[1] EXCEPT !.pc = "tail",
                                    !.stdout_txt = Some(proc[1].captured)])
    /\ UNCHANGED <<main, lint>>

\* lines 36-38: the end time passes, while the pipe is read or the exit is
\* waited for; TimeoutExpired is raised and its text kept.  What
\* communicate has read is not kept.
CommunicateTimeout ==
    /\ proc # None
    /\ proc[1].pc \in {"communicate", "comm_wait"}
    /\ proc[1].child = "running" \/ proc[1].pc = "communicate"
    /\ past_limit(proc[1])
    /\ proc' = Some([proc[1] EXCEPT
                       !.pc = "tail", !.expired = TRUE,
                       !.stdout_txt =
                          Some(TimeoutMessage(IF proc[1].pc = "communicate"
                                              THEN proc[1].limit[1]
                                              ELSE proc[1].remaining[1]))])
    /\ UNCHANGED <<main, lint>>

\* lines 40-46: an open stdout is read to its end, which comes when the
\* subprocess no longer holds the pipe, and closed; the text is cleaned
ReadTail ==
    /\ proc # None
    /\ proc[1].pc = "tail"
    /\ proc[1].closed \/ ~proc[1].open
    /\ LET text == IF proc[1].closed THEN proc[1].stdout_txt[1]
                   ELSE proc[1].stdout_txt[1] \o read_all(proc[1].pipe)
       IN  proc' = Some([proc[1] EXCEPT
                          !.pc = "wait", !.closed = TRUE,
                          !.pipe = IF proc[1].closed THEN @ ELSE <<>>,
                          !.stdout_txt = Some(rstrip(replace_cr(text)))])
    /\ UNCHANGED <<main, lint>>

\* lines 47-50: process.wait() returns when the subprocess has exited, and
\* the call returns status and text
WaitReturn ==
    /\ proc # None
    /\ proc[1].pc = "wait"
    /\ proc[1].child = "exited"
    /\ proc' = Some([proc[1] EXCEPT !.pc = "returned",
                                    !.status = proc[1].returncode])
    /\ UNCHANGED <<main, lint>>

\* the steps of the call itself
Call == CommunicateRead \/ CommunicateEOF \/ CommunicateReturn
          \/ CommunicateTimeout \/ ReadTail \/ WaitReturn

NextExecute ==
    \/ ChildWrite \/ ChildClose \/ ChildExit \/ Tick
    \/ CommunicateRead \/ CommunicateEOF \/ CommunicateReturn
    \/ CommunicateTimeout \/ ReadTail \/ WaitReturn

SpecExecute == InitExecute /\ [][NextExecute]_vars

\* the call runs whenever it can and time passes; nothing makes the
\* subprocess write, close or exit
FairExecute == SpecExecute /\ WF_vars(Call) /\ WF_vars(Tick)

(***************************************************************************)
(* pyflaker.py: the Ignore object and the two methods the wrapper puts on  *)
(* the checker, init (lines 364-373) and report (lines 438-523).  One run  *)
(* checks the files of its command line in order: for each file a checker  *)
(* is constructed (init), and it reports the messages of the file one by   *)
(* one (report).  lint holds the run:                                      *)
(*   symbol_table   the json of the .pyflaker file beside the program, or  *)
(*                  None when there is no such file                        *)
(*   symbols, files, types   ignore._symbols, ignore._files, ignore._types *)
(*   showall        cmd.showall                                            *)
(*   argv           the files to check                                     *)
(*   idx, pc, msg   the file the run is at; "init" before the checker of   *)
(*                  that file is constructed, "report" while its messages  *)
(*                  are reported, "done"; the message report is at         *)
(*   messages       self.messages of every checker so far: what is shown   *)
(***************************************************************************)
MaxFiles == 2

\* a .pyflaker file of the form the docstring of Ignore gives
PyflakerConfig ==
    << [section |-> "Python", files |-> <<"*.py">>,
        ignore_types |-> {"ImportStarUsed"}, ignore_symbols |-> {"_", "A"}],
       [section |-> "SCons", files |-> <<"SConstruct", "*.scons">>,
        ignore_types |-> {}, ignore_symbols |-> {"Import"}] >>

\* a message the checker is about to report: its class, the name it is
\* about (args[1]), the names of a pyflakes:ignore_all(...) on its line, a
\* pylint:disable on its line, and whether the settings of frosted
\* suppress it (ignore_errors, ignore_lines)
Msg(class, name, ignore_all, pylint, frosted) ==
    [class |-> class, name |-> name, ignore_all |-> ignore_all,
     pylint |-> pylint, frosted |-> frosted]

\* the files a run can be given: the name, whether line 1 says the file
\* was generated by SWIG, whether a line carries no-static-analysis, and
\* the messages of the file in order
SourceFiles ==
    { [filename |-> "a.lmpy", swig |-> FALSE, no_analysis |-> FALSE,
       msgs |-> << Msg("UndefinedName", "model", {"model", "ROOT"}, FALSE, FALSE),
                   Msg("UndefinedName", "ROOT", {}, FALSE, FALSE) >>],
      [filename |-> "pkg/b.py", swig |-> FALSE, no_analysis |-> FALSE,
       msgs |-> << Msg("UndefinedName", "model", {}, FALSE, FALSE),
                   Msg("ImportStarUsed", "pkg", {}, FALSE, FALSE) >>],
      [filename |-> "SConstruct", swig |-> FALSE, no_analysis |-> FALSE,
       msgs |-> << Msg("UndefinedName", "Import", {}, FALSE, FALSE),
                   Msg("UndefinedName", "_", {"_"}, FALSE, TRUE) >>],
      [filename |-> "swig.py", swig |-> TRUE, no_analysis |-> FALSE,
       msgs |-> << Msg("UnusedImport", "os", {}, FALSE, FALSE),
                   Msg("UndefinedName", "A", {}, FALSE, FALSE) >>],
      [filename |-> "c.py", swig |-> FALSE, no_analysis |-> TRUE,
       msgs |-> << Msg("UnusedImport", "sys", {}, TRUE, FALSE) >>],
      [filename |-> "d.py", swig |-> FALSE, no_analysis |-> FALSE,
       msgs |-> << Msg("UnusedImport", "re", {}, TRUE, FALSE),
                   Msg("UndefinedName", "ROOT", {}, FALSE, FALSE) >>] }

\* Ignore.__init__, lines 184-193, for a run with or without a .pyflaker
\* file, with or without --showall
InitLint ==
    /\ MainAtRest
    /\ proc = None
    /\ \E table \in {None, Some(PyflakerConfig)} :
       \E showall \in BOOLEAN :
       \E argv \in SeqsUpTo(SourceFiles, MaxFiles) \ {<<>>} :
         lint = Some([symbol_table |-> table, symbols |-> {}, files |-> {},
                      types |-> {}, showall |-> showall, argv |-> argv,
                      idx |-> 1, pc |-> "init", msg |-> 1, messages |-> <<>>])

\* os.path.basename: the text after the last "/", found from position i down
RECURSIVE basename_from(_, _)
basename_from(filename, i) ==
    IF i = 0 THEN filename
    ELSE IF SubSeq(filename, i, i) = "/" THEN SubSeq(filename, i + 1, Len(filename))
    ELSE basename_from(filename, i - 1)

basename(filename) == basename_from(filename, Len(filename))

\* fnmatch.fnmatch for the patterns of the configuration: a text, or "*"
\* and the text the name has to end with
fnmatch(filename, match) ==
    IF StartsWith(match, "*")
    THEN LET tail == SubSeq(match, 2, Len(match)) IN
         /\ Len(filename) >= Len(tail)
         /\ SubSeq(filename, Len(filename) - Len(tail) + 1, Len(filename)) = tail
    ELSE filename = match

\* the sections of a table with a pattern the name matches
matching(table, filename) ==
    {k \in 1..Len(table) :
       \E m \in 1..Len(table[k].files) : fnmatch(filename, table[k].files[m])}

\* Ignore.reset_symbols, lines 207-222
reset_symbols(self, filename) ==
    IF self.symbol_table = None THEN self
    ELSE LET table == self.symbol_table[1]
             found == matching(table, basename(filename))
         IN  [self EXCEPT !.symbols = UNION {table[k].ignore_symbols : k \in found},
                          !.types = UNION {table[k].ignore_types : k \in found}]

\* Ignore.add_symbols, lines 224-226
add_symbols(self, names) == [self EXCEPT !.symbols = @ \cup names]

\* Ignore.add_file, lines 228-229
add_file(self, filename) == [self EXCEPT !.files = @ \cup {filename}]

\* report, lines 438-523, for message m of file f: the run afterwards
report(self, f, m) ==
    LET shown == [self EXCEPT !.messages = Append(@, [filename |-> f.filename,
                                                      class |-> m.class,
                                                      name |-> m.name])]
    IN  IF m.class = "UndefinedName" /\ m.name \in self.symbols THEN self
        ELSE IF self.showall THEN shown
        ELSE IF m.frosted THEN self
        ELSE IF f.filename \in self.files THEN self
        ELSE IF m.class \in self.types THEN self
        ELSE IF f.swig THEN add_file(self, f.filename)
        ELSE IF f.no_analysis THEN add_file(self, f.filename)
        ELSE IF m.pylint THEN self
        ELSE LET added == IF m.ignore_all # {} THEN add_symbols(self, m.ignore_all)
                          ELSE self
             IN  IF m.class = "UndefinedName" /\ m.name \in added.symbols THEN added
                 ELSE [added EXCEPT !.messages = shown.messages]

\* the checker of the next file is constructed: init resets the symbols
\* for the file name before the file is processed
CheckerInit ==
    /\ lint # None
    /\ lint[1].pc = "init"
    /\ lint[1].idx <= Len(lint[1].argv)
    /\ lint' = Some([reset_symbols(lint[1], lint[1].argv[lint[1].idx].filename)
                       EXCEPT !.pc = "report", !.msg = 1])
    /\ UNCHANGED <<main, proc>>

\* the checker reports the next message of its file
Report ==
    /\ lint # None
    /\ lint[1].pc = "report"
    /\ LET f == lint[1].argv[lint[1].idx] IN
       /\ lint[1].msg <= Len(f.msgs)
       /\ lint' = Some([report(lint[1], f, f.msgs[lint[1].msg])
                          EXCEPT !.msg = lint[1].msg + 1])
    /\ UNCHANGED <<main, proc>>

\* the messages of the file are exhausted: the run goes to the next file
NextFile ==
    /\ lint # None
    /\ lint[1].pc = "report"
    /\ lint[1].msg > Len(lint[1].argv[lint[1].idx].msgs)
    /\ lint' = Some([lint[1] EXCEPT !.idx = @ + 1, !.pc = "init"])
    /\ UNCHANGED <<main, proc>>

\* every file has been checked
LintDone ==
    /\ lint # None
    /\ lint[1].pc = "init"
    /\ lint[1].idx > Len(lint[1].argv)
    /\ lint' = Some([lint[1] EXCEPT !.pc = "done"])
    /\ UNCHANGED <<main, proc>>

NextLint == CheckerInit \/ Report \/ NextFile \/ LintDone

SpecLint == InitLint /\ [][NextLint]_vars

(***************************************************************************)
(* Properties.                                                             *)
(***************************************************************************)
StaticLen == Len(allocations_literal)

\* the block is one of the static baseline
IsStatic(b) == \E s \in 1..StaticLen : StaticAllocations[s] = b

\* first and last address of a network, for the range view of containment
FirstIp(network) == network.network_address
LastIp(network) ==
    [i \in 1..8 |-> network.network_address[i]
                      + Pow2(16 - BitsIn(network.prefixlen, i)) - 1]
Covers(network, ip) ==
    /\ ~IpLess(ip, FirstIp(network))
    /\ ~IpLess(LastIp(network), ip)

\* the scan of the current address has been made and rendered
Scanned == pc \in {"loop", "done"} /\ address # None

\* C1: in every reachable table, a block whose CIDR strictly contains
\* another block's CIDR is positioned before it.
C1_SupernetFirst ==
    \A j \in 1..Len(allocations) : \A i \in j..Len(allocations) :
        ~StrictSupernet(allocations[i].address_block, allocations[j].address_block)

\* a discovered block sits in the table before a block it strictly contains
C1_Witness ==
    /\ Len(allocations) > StaticLen
    /\ \E i, j \in 1..Len(allocations) :
         /\ i < j
         /\ ~IsStatic(allocations[i])
         /\ StrictSupernet(allocations[i].address_block, allocations[j].address_block)

\* C2: the chain of the scan is exactly the table blocks whose CIDR contains
\* the address, none missing and none extra, supernet before subnet.
C2_ChainExact ==
    Scanned =>
      /\ \A k \in 1..Len(chain) : Covers(chain[k].address_block, address[1].ip)
      /\ \A b \in {allocations[i] : i \in 1..Len(allocations)} :
           Cardinality({k \in 1..Len(chain) : chain[k] = b}) =
             IF Covers(b.address_block, address[1].ip)
             THEN Cardinality({i \in 1..Len(allocations) : allocations[i] = b})
             ELSE 0
      /\ \A k \in 1..Len(chain) : \E i \in 1..Len(allocations) : allocations[i] = chain[k]
      /\ \A k, m \in 1..Len(chain) :
           k < m => ~StrictSupernet(chain[m].address_block, chain[k].address_block)

\* a scan has yielded a chain of three nested blocks, one of them discovered
C2_Witness ==
    /\ Scanned
    /\ Len(chain) >= 3
    /\ Len(allocations) > StaticLen
    /\ StrictSupernet(chain[1].address_block, chain[2].address_block)

\* C3: the prefix lengths of the chain, in scan order, never decrease.
C3_PrefixMonotone ==
    Scanned =>
      \A k \in 1..(Len(chain) - 1) :
        chain[k].address_block.prefixlen <= chain[k + 1].address_block.prefixlen

\* a chain with three different prefix lengths has been scanned
C3_Witness ==
    /\ Scanned
    /\ Len(chain) >= 3
    /\ chain[1].address_block.prefixlen < chain[2].address_block.prefixlen
    /\ chain[2].address_block.prefixlen < chain[3].address_block.prefixlen

\* the record the innermost add_org frame is about to process is usable
HasRecord == pc = "add_org" /\ whois # None /\ WhoIs_bool(whois[1])

\* the lookups of the current input have come back to a key already queried
CycleWalked == \E i, j \in 1..Len(trace) : i < j /\ trace[i] = trace[j]

\* C4: on a whois parent chain with a cycle add_org still returns normally
\* to its caller (it does not recurse until Python gives up).
C4_CycleTerminates == CycleWalked => exc # "RecursionError"

\* C5: no two blocks of the table have the same CIDR (same network address
\* and same prefix length).
C5_NoDuplicateCidr ==
    \A i, j \in 1..Len(allocations) :
        i < j =>
          \/ allocations[i].address_block.network_address #
               allocations[j].address_block.network_address
          \/ allocations[i].address_block.prefixlen #
               allocations[j].address_block.prefixlen

\* C6: when the CIDR of the record is already an exact entry of the table,
\* add_org stops there: nothing is inserted and the parent is not looked up.
C6_KnownCidrStops ==
    [][(HasRecord /\ in_allocations(allocations, whois[1].cidr[1]) # None)
         => (allocations' = allocations /\ pc' # "lookup")]_vars

\* the network a CIDR text denotes is the address block of a table entry
CidrInTable(text) ==
    LET b == B(text, "", "") IN
    /\ b.exc = "None"
    /\ \E i \in 1..Len(allocations) :
         allocations[i].address_block = b.block.address_block

\* C7: inserting a block whose CIDR already exists in the table leaves the
\* table unchanged.
C7_InsertIdempotent ==
    [][(HasRecord /\ CidrInTable(whois[1].cidr[1]))
         => allocations' = allocations]_vars

\* C8: a candidate in 2000::/3 has had its one add_org call, completed,
\* when its scan starts; a candidate outside 2000::/3 reaches its scan with
\* no whois lookup and an unchanged table.
C8_AugmentBeforeScan ==
    /\ [](pc = "scan" =>
            /\ stack = <<>>
            /\ IF InNetwork(address[1].ip, GUA)
               THEN org_calls = 1 /\ Len(trace) >= 1
               ELSE org_calls = 0 /\ trace = <<>>)
    /\ [][(pc = "loop" /\ pc' = "scan")
            => (~InNetwork(address'[1].ip, GUA)
                /\ allocations' = allocations /\ cache' = cache)]_vars
    /\ [][(pc' = "lookup" /\ Len(stack') = 1) => pc = "loop"]_vars

\* the scan of a global unicast candidate is about to start and add_org has
\* inserted a block for it
C8_Witness ==
    /\ pc = "scan"
    /\ InNetwork(address[1].ip, GUA)
    /\ org_calls = 1
    /\ Len(trace) >= 2
    /\ Len(allocations) > StaticLen

\* C9: the table only grows: every block stays in the table in every later
\* state.
C9_TableOnlyGrows ==
    [][\/ allocations' = allocations
       \/ /\ Len(allocations') > Len(allocations)
          /\ \A i \in 1..Len(allocations) :
               Cardinality({j \in 1..Len(allocations') : allocations'[j] = allocations[i]})
                 >= Cardinality({j \in 1..Len(allocations) : allocations[j] = allocations[i]})]_vars

\* a block discovered for an earlier input is in the table the scan of a
\* later input is about to read
C9_Witness ==
    /\ pc = "scan"
    /\ idx > 1
    /\ output # <<>>
    /\ output[1].kind = "chain"
    /\ \E b \in {output[1].chain[k] : k \in 1..Len(output[1].chain)} :
         /\ ~IsStatic(b)
         /\ \E i \in 1..Len(allocations) : allocations[i] = b

\* C10: add_org never raises to its caller, whatever the whois collaborator
\* does.
C10_NeverRaises == pc # "aborted"

(***************************************************************************)
(* Properties of option handling and of the rendering.                     *)
(***************************************************************************)
\* the inputs rendered so far, as positions of output
Rendered == {k \in 1..Len(output) : output[k].kind = "chain"}

\* the parsed address of a rendered input
EntryIp(k) == IPv6Interface(output[k].input).ip

\* the items of a rendered input that carry a label
FieldsOf(k, label) ==
    {output[k].fields[f] : f \in {g \in 1..Len(output[k].fields) :
                                    output[k].fields[g].label = label}}

\* the number of items of a rendered input that carry a label
CountOf(k, label) ==
    Cardinality({g \in 1..Len(output[k].fields) : output[k].fields[g].label = label})

\* four lowercase hex digits of a group
Hex4(g) == Hex2(g \div 256) \o Hex2(g % 256)

\* the parent reference of the record is neither empty nor a NET handle and
\* IPv6Interface rejects it
BadParent(w) ==
    /\ w.parent # None
    /\ w.parent[1] # ""
    /\ ~StartsWith(w.parent[1], "NET")
    /\ IPv6Interface(w.parent[1]).exc # "None"

\* C11: when the parent reference of the record is not a NET handle and does
\* not parse (bad address text or bad prefix length), add_org ends the branch
\* without raising and without a further lookup, and the table keeps what
\* was inserted.
C11_BadParentEndsBranch ==
    [][(HasRecord /\ BadParent(whois[1]) /\ add_org_insert(allocations, whois[1]).exc = "None")
         => /\ pc' = "scan"
            /\ exc' = "None"
            /\ trace' = trace
            /\ allocations' = add_org_insert(allocations, whois[1]).allocations]_vars

\* C12: whatever the options, the run does not abort in option handling, and
\* an invalid input is reported for itself and skipped: the loop goes on to
\* the next input with the table, the cache and the earlier output untouched.
C12_InvalidSkipped ==
    /\ [][pc = "args" => pc' = "loop"]_vars
    /\ [][(pc = "loop" /\ idx <= Len(addresses)
             /\ IPv6Interface(addresses[idx]).exc # "None")
            => /\ pc' = "loop"
               /\ idx' = idx + 1
               /\ output' = Append(output, [kind |-> "invalid", input |-> addresses[idx]])
               /\ allocations' = allocations
               /\ cache' = cache]_vars

\* C13: in both renderings the line 'Address in unknown or unassigned block'
\* is printed for an input exactly when its chain is empty.
C13_UnknownIffEmptyChain ==
    \A k \in Rendered :
        (FieldsOf(k, "unknown") # {}) <=> (output[k].chain = <<>>)

\* positions of the chain that hold a given block
ChainPositions(b) == {k \in 1..Len(chain) : chain[k] = b}

\* two blocks of one CIDR are both in the chain of the scan or both out of
\* it, and the chain keeps them in their table order
TiesInChain ==
    Scanned =>
      /\ \A i, j \in 1..Len(allocations) :
           allocations[i].address_block = allocations[j].address_block
             => (ChainPositions(allocations[i]) # {} <=> ChainPositions(allocations[j]) # {})
      /\ \A k, m \in 1..Len(chain) :
           (k < m /\ chain[k].address_block = chain[m].address_block)
             => \E i, j \in 1..Len(allocations) :
                  i <= j /\ allocations[i] = chain[k] /\ allocations[j] = chain[m]

NAT64 == IPv6Network("0064:ff9b::/96").net

\* dotted-decimal text of the low 32 bits of an address
DottedQuad(ip) ==
    ToString(ip[7] \div 256) \o "." \o ToString(ip[7] % 256) \o "." \o
    ToString(ip[8] \div 256) \o "." \o ToString(ip[8] % 256)

\* C15: for every address in ::ffff:0:0/96 or in 64:ff9b::/96 the bit-field
\* rendering shows the low 32 bits as a dotted-decimal IPv4 address;
\* 64:ff9b:: with the low 32 bits 0xC0A801C8 shows 192.168.1.200.
C15_EmbeddedIPv4 ==
    args.exploded =>
      \A k \in Rendered :
        /\ (InNetwork(EntryIp(k), IP4) \/ InNetwork(EntryIp(k), NAT64))
             => \E f \in FieldsOf(k, "IPv4") :
                  f.text = DottedQuad(EntryIp(k)) /\ f.bits = 96..127
        /\ EntryIp(k) = <<100, 65435, 0, 0, 0, 0, 49320, 456>>
             => \E f \in FieldsOf(k, "IPv4") : f.text = "192.168.1.200"

\* the 16 bits at offsets 24..39 of the low 64 bits are 0xFFFE
HasFFFE(ip) == ip[6] % 256 = 255 /\ ip[7] \div 256 = 254

\* C16: the EUI-64 / MAC decoding is made for an address exactly when the 16
\* bits at offsets 24..39 of its low 64 bits are 0xFFFE.  (The hierarchical
\* rendering prints it only under a non-empty chain, so the 'if' direction
\* is stated for the bit-field rendering.)
C16_EUI64OnlyFFFE ==
    \A k \in Rendered :
      /\ FieldsOf(k, "EUI48") # {} => HasFFFE(EntryIp(k))
      /\ (args.exploded /\ HasFFFE(EntryIp(k))) => FieldsOf(k, "EUI48") # {}

\* the octets the claim describes: the top 24 bits of the interface
\* identifier with bit 0x02 of the first octet inverted, then its low 24 bits
ClaimedOctets(ip) ==
    LET first == ip[5] \div 256 IN
    <<IF (first \div 2) % 2 = 1 THEN first - 2 ELSE first + 2,
      ip[5] % 256, ip[6] \div 256, ip[7] % 256, ip[8] \div 256, ip[8] % 256>>

ClaimedMac(ip) ==
    LET o == ClaimedOctets(ip) IN
    Hex2(o[1]) \o ":" \o Hex2(o[2]) \o ":" \o Hex2(o[3]) \o ":" \o
    Hex2(o[4]) \o ":" \o Hex2(o[5]) \o ":" \o Hex2(o[6])

\* C17: for every address that passes the EUI-64 test, the MAC printed is the
\* top 24 bits of the interface identifier with bit 0x02 of the first octet
\* inverted, then the low 24 bits, as six lowercase two-digit hex octets
\* joined by colons; f03c:92ff:fe41:3428 gives f2:3c:92:41:34:28.
C17_MacRecovered ==
    \A k \in Rendered :
      /\ (eui64_test(EntryIp(k)) /\ (args.exploded \/ output[k].chain # <<>>))
           => CountOf(k, "EUI48") = 1
      /\ \A f \in FieldsOf(k, "EUI48") :
           /\ f.text = ClaimedMac(EntryIp(k))
           /\ Len(f.text) = 17
           /\ SubSeq(EntryIp(k), 5, 8) = <<61500, 37631, 65089, 13352>>
                => f.text = "f2:3c:92:41:34:28"

\* the MAC of the interface identifier f03c:92ff:fe41:3428 has been printed
C17_Witness ==
    \E k \in Rendered :
      /\ SubSeq(EntryIp(k), 5, 8) = <<61500, 37631, 65089, 13352>>
      /\ FieldsOf(k, "EUI48") # {}

\* C18: for every address in fc00::/7, in both renderings and whatever the
\* table, the Global ID is bits 8..47 (40 bits) and the Subnet ID is bits
\* 48..63 (16 bits).
C18_UlaFixedSplit ==
    \A k \in Rendered :
      InNetwork(EntryIp(k), ULA) =>
        /\ CountOf(k, "GID") = 1
        /\ CountOf(k, "SID") = 1
        /\ \A f \in FieldsOf(k, "GID") :
             /\ f.width = 40
             /\ IF args.exploded THEN f.bits = 8..47
                ELSE f.text = Hex2(EntryIp(k)[1] % 256) \o ":" \o Hex4(EntryIp(k)[2])
                                \o ":" \o Hex4(EntryIp(k)[3])
        /\ \A f \in FieldsOf(k, "SID") :
             /\ f.width = 16
             /\ IF args.exploded THEN f.bits = 48..63
                ELSE f.text = Hex4(EntryIp(k)[4])

\* a unique-local address has been rendered from a table that holds a
\* discovered block
C18_Witness ==
    /\ Len(allocations) > StaticLen
    /\ \E k \in Rendered :
         /\ InNetwork(EntryIp(k), ULA)
         /\ FieldsOf(k, "GID") # {}
         /\ Len(output[k].chain) > 2

\* the prefix length of the deepest block of the chain of a rendered input
Deepest(k) == output[k].chain[Len(output[k].chain)].address_block.prefixlen

\* a rendered input outside fc00::/7 with a deepest block of prefix length
\* p has its bits p..63 labelled Subnet ID when p <= 64, none when p > 64
SubnetIdLabelled(k) ==
    IF Deepest(k) <= 64
    THEN /\ CountOf(k, "SID") = 1
         /\ \A f \in FieldsOf(k, "SID") :
              f.bits = Deepest(k)..63 /\ f.width = 64 - Deepest(k)
    ELSE CountOf(k, "SID") = 0

\* C19 as stated: for every address outside fc00::/7 whose deepest block has
\* prefix length p, the rendering labels exactly bits p..63 as the Subnet ID
\* when p <= 64 and labels no Subnet ID when p > 64.
C19_SubnetId ==
    \A k \in Rendered :
      (~InNetwork(EntryIp(k), ULA) /\ output[k].chain # <<>>) => SubnetIdLabelled(k)

\* C19 amended: that holds in the bit-field rendering; the hierarchical
\* rendering labels no Subnet ID outside fc00::/7.
C19_SubnetIdExploded ==
    \A k \in Rendered :
      (~InNetwork(EntryIp(k), ULA) /\ output[k].chain # <<>>) =>
        IF args.exploded THEN SubnetIdLabelled(k) ELSE CountOf(k, "SID") = 0

\* the bit-field rendering of an address outside fc00::/7 under a block of
\* prefix length between 1 and 63 carries a Subnet ID
C19_Witness ==
    /\ args.exploded
    /\ \E k \in Rendered :
         /\ ~InNetwork(EntryIp(k), ULA)
         /\ output[k].chain # <<>>
         /\ Deepest(k) > 0
         /\ Deepest(k) < 64
         /\ FieldsOf(k, "SID") # {}

\* text of the low 64 bits of an address
Low64Text(ip) ==
    Hex4(ip[5]) \o ":" \o Hex4(ip[6]) \o ":" \o Hex4(ip[7]) \o ":" \o Hex4(ip[8])

\* the rendered input has exactly one Interface ID item, for bits 64..127
InterfaceIdLabelled(k) ==
    /\ CountOf(k, "IID") = 1
    /\ \A f \in FieldsOf(k, "IID") :
         /\ f.width = 64
         /\ IF args.exploded THEN f.bits = 64..127
            ELSE f.text = Low64Text(EntryIp(k))

\* C20 as stated: for every valid input with neither an embedded IPv4 nor an
\* EUI-64 MAC detected, both renderings label bits 64..127 as the Interface
\* ID, whatever the chain.
C20_InterfaceId ==
    \A k \in Rendered :
      (FieldsOf(k, "IPv4") = {} /\ FieldsOf(k, "EUI48") = {}) => InterfaceIdLabelled(k)

\* C20 amended: the hierarchical rendering labels the Interface ID for every
\* valid input; the bit-field rendering labels it exactly when the chain is
\* not empty and its deepest block has a prefix length p with 0 < p <= 64.
C20_InterfaceIdByMode ==
    \A k \in Rendered :
      IF ~args.exploded THEN InterfaceIdLabelled(k)
      ELSE IF output[k].chain # <<>> /\ Deepest(k) > 0 /\ Deepest(k) <= 64
      THEN InterfaceIdLabelled(k)
      ELSE CountOf(k, "IID") = 0

\* the bit-field rendering of one input carries the Interface ID and that of
\* another input, contained by no block, does not
C20_Witness ==
    /\ args.exploded
    /\ \E k, m \in Rendered :
         /\ FieldsOf(k, "IID") # {}
         /\ output[m].chain = <<>>
         /\ FieldsOf(m, "IID") = {}

(***************************************************************************)
(* The chains of two named static blocks.                                  *)
(***************************************************************************)
DocNet == IPv6Network("2001:db8::/32").net
LoopbackIp == IPv6Interface("::1").ip

\* C21: a candidate inside 2001:db8::/32, scanned while the table holds no
\* discovered block, gets the chain of exactly two blocks: Global Unicast
\* 2000::/3 first, 'Documentation (never route)' 2001:db8::/32 last.
C21_DocumentationChain ==
    [][(pc = "scan" /\ InNetwork(address[1].ip, DocNet)
          /\ allocations = StaticAllocations)
       => chain' = <<B("2000::/3", "Global Unicast (GUA)", "").block,
                     B("2001:db8::/32", "Documentation (never route)",
                       "RFC3849").block>>]_vars

\* a documentation address was looked up, the lookup gave nothing, and the
\* scan of the static table has run
C21_Witness ==
    /\ Scanned
    /\ InNetwork(address[1].ip, DocNet)
    /\ allocations = StaticAllocations
    /\ trace # <<>>
    /\ Len(chain) = 2
    /\ output # <<>> /\ output[Len(output)].input = addresses[idx - 1]

\* C22: the loopback address ::1 is not looked up, and its chain over the
\* static table is the one block 'Loopback Unicast' ::1/128: neither the
\* unspecified-address block ::/128 nor the IPv4-mapped block is in it.
C22_LoopbackAlone ==
    [][/\ (pc = "loop" /\ idx <= Len(addresses) /\ addresses[idx] = "::1")
          => (pc' = "scan" /\ trace' = <<>> /\ org_calls' = 0)
       /\ (pc = "scan" /\ address[1].ip = LoopbackIp
             /\ allocations = StaticAllocations)
          => chain' = <<B("::1", "Loopback Unicast", "RFC4291").block>>]_vars

\* ::1 has been scanned against the static table
C22_Witness ==
    /\ Scanned
    /\ address[1].ip = LoopbackIp
    /\ allocations = StaticAllocations
    /\ Len(chain) = 1
    /\ org_calls = 0
    /\ output # <<>> /\ output[Len(output)].input = "::1"

(***************************************************************************)
(* The listing of the table.                                               *)
(***************************************************************************)
\* the networks of a table, in table order
Networks(table) == [i \in 1..Len(table) |-> table[i].address_block]

\* the row of block i shows the stack the claim describes
RowOk(table, rows, i) ==
    LET b      == table[i].address_block
        before == SelectSeq(SubSeq(Networks(table), 1, i - 1),
                            LAMBDA n : StrictSupernet(n, b))
        all    == {j \in 1..Len(table) : StrictSupernet(table[j].address_block, b)}
    IN  /\ rows[i].stack = before
        /\ Len(rows[i].stack) = Cardinality(all)
        /\ all # {} =>
             \A j \in all : table[j].address_block.prefixlen
                               <= rows[i].stack[Len(rows[i].stack)].prefixlen

ListingOk(table) ==
    LET rows == dump(table) IN \A i \in 1..Len(table) : RowOk(table, rows, i)

C25_ZeroFourChars ==
    pc \in {"list", "loop", "lookup", "add_org", "scan", "done"}
      => Len(args.zero) = 4

(***************************************************************************)
(* The RFC index.                                                          *)
(***************************************************************************)
\* the blocks add_rfc has been applied to by the per-address loop
BlocksSeen ==
    UNION {{output[k].chain[j] : j \in 1..Len(output[k].chain)} : k \in Rendered}

\* d lists under every RFC, exactly once, the name of every block of the
\* set whose rfc field has the RFC
RfcsComplete(d, blocks) ==
    \A r \in UNION {split(b.rfc) : b \in blocks} :
      LET names == rfc_names(d, r) IN
      /\ {names[k] : k \in 1..Len(names)} = {b.name : b \in {x \in blocks : r \in split(x.rfc)}}
      /\ \A i, j \in 1..Len(names) : i # j => names[i] # names[j]

\* the blocks dump has listed so far
BlocksListed == {allocations[i] : i \in 1..(idx - 1)}

\* C29: after add_rfc has been applied to a sequence of blocks (the blocks
\* of the table dump has listed, the chains of the addresses handled by
\* the loop), every RFC lists, exactly once, the name of each block whose
\* rfc field has it.
C29_RfcNamesKept ==
    /\ (args.list /\ pc \in {"list", "done"}) => RfcsComplete(rfcs, BlocksListed)
    /\ (~args.list /\ pc \in {"loop", "done"}) => RfcsComplete(rfcs, BlocksSeen)

(***************************************************************************)
(* The whois cache and the order of the RDAP services.                     *)
(***************************************************************************)
\* the entries printed for a key of the same canonical form as the key the
\* loop of whois.py is at
EarlierSameKey ==
    {k \in 1..Len(output) :
       canonical_key(output[k].key) = canonical_key(addresses[idx])}

\* C24: without --refresh, once whois_from_cache has returned a record for
\* a key, a later call with a key of the same canonical form returns that
\* record and requests nothing from the network; while every earlier call
\* for the key has failed, the call goes to the network again.
C24_CacheByCanonicalKey ==
    [][(pc = "whois" /\ idx <= Len(addresses) /\ ~args.refresh
          /\ EarlierSameKey # {})
       => IF \E k \in EarlierSameKey : WhoIs_bool(output[k].whois[1])
          THEN /\ pc' = "whois"
               /\ requests' = <<>>
               /\ \E k \in EarlierSameKey :
                    WhoIs_bool(output[k].whois[1]) /\ whois' = output[k].whois
          ELSE requests' # <<>>]_vars

\* two keys that differ in the case of their letters have been looked up,
\* the second one answered from the cache
C24_Witness ==
    /\ pc \in {"whois", "done"} /\ ~args.refresh
    /\ Len(output) = 2
    /\ output[1].key # output[2].key
    /\ canonical_key(output[1].key) = canonical_key(output[2].key)
    /\ WhoIs_bool(output[1].whois[1])
    /\ output[2].whois = output[1].whois
    /\ output[2].urls = <<>>

\* the entries of the lookups WhoIs.from_ip has made: the key is neither a
\* reference nor a handle, and the network was asked
FromIpEntries ==
    {k \in 1..Len(output) :
       /\ output[k].kind = "whois"
       /\ ~StartsWith(output[k].key, "http") /\ ~StartsWith(output[k].key, "NET")
       /\ output[k].urls # <<>>}

\* the positions of the services that answer 200 for the key of entry k
Answering(k) ==
    {i \in 1..Len(rdap_urls) :
       rq_get(rdap_urls[i] \o output[k].key, output[k].net).status_code = 200}

\* the smallest element of a non-empty set of numbers
Min(S) == CHOOSE x \in S : \A y \in S : x <= y

\* C30: from_ip asks the services in the listed order and stops at the
\* first that answers 200; the record is truthy with error None exactly
\* when some service answered 200, and when all fail it is falsy with the
\* status of the last service as its error.
C30_ServicesInOrder ==
    \A k \in FromIpEntries :
      LET w == output[k].whois[1]
          n == IF Answering(k) = {} THEN Len(rdap_urls) ELSE Min(Answering(k))
      IN  /\ output[k].urls = [i \in 1..n |-> rdap_urls[i] \o output[k].key]
          /\ (WhoIs_bool(w) /\ w.error = None) <=> Answering(k) # {}
          /\ Answering(k) = {} =>
               /\ ~WhoIs_bool(w)
               /\ w.error = Some(rq_get(rdap_urls[Len(rdap_urls)] \o output[k].key,
                                         output[k].net).status_code)

\* a lookup answered by the third service after two that failed, and one
\* that every service failed with a status of its own
C30_Witness ==
    /\ \E k \in FromIpEntries :
         Len(output[k].urls) = 3 /\ WhoIs_bool(output[k].whois[1])
    /\ \E k \in FromIpEntries :
         /\ Answering(k) = {}
         /\ output[k].whois[1].error = Some(429)
         /\ rq_get(rdap_urls[1] \o output[k].key, output[k].net).status_code = 503

(***************************************************************************)
(* The walk up a finite parent chain.                                      *)
(***************************************************************************)
\* the record whois_from_cache has returned for the i-th lookup of the walk
ChainRecord(i) == cache_get(cache, trace[i])

\* the record ends its chain: it names no parent, or a parent that is
\* neither a handle nor an address
ChainEnds(w) == w.parent = None \/ w.parent[1] = "" \/ BadParent(w)

\* the lookups made so far are the chain from the queried address, each
\* element once and each the parent of the record before it
WalkedInOrder ==
    /\ trace[1] = address[1].with_prefixlen
    /\ \A i, j \in 1..Len(trace) : i < j => trace[i] # trace[j]
    /\ \A i \in 1..Len(trace) :
         /\ ChainRecord(i) # None
         /\ B(ChainRecord(i)[1].cidr[1], "", "").exc = "None"
    /\ \A i \in 2..Len(trace) :
         LET p == ChainRecord(i - 1)[1].parent[1] IN
         trace[i] = IF StartsWith(p, "NET") THEN p
                    ELSE IPv6Interface(p).with_prefixlen

\* C28: when the parent chain from the queried address is finite and
\* acyclic and every lookup has returned a record with a valid CIDR,
\* add_org returns to its caller at the record that ends the chain, having
\* made one lookup per element in child-to-parent order, and the table
\* then holds a block for the CIDR of every record of the chain.
C28_FiniteChainWalked ==
    [][(HasRecord /\ WalkedInOrder /\ ChainEnds(whois[1]))
         => /\ pc' = "scan"
            /\ trace' = trace
            /\ \A i \in 1..Len(trace) :
                 (CidrInTable(ChainRecord(i)[1].cidr[1]))']_vars

(***************************************************************************)
(* The return of get_status_output after a timeout.                        *)
(***************************************************************************)
\* the call has returned to its caller with the timeout message in the
\* text it returns
ReturnedWithMessage ==
    /\ proc[1].pc = "returned"
    /\ proc[1].limit # None
    /\ \E t \in 0..MaxLimit : StartsWith(proc[1].stdout_txt[1], TimeoutMessage(t))

\* C26: when the subprocess has not finished within the limit, the call
\* eventually returns with the timeout message in its output, whether or
\* not the subprocess ever exits on its own.
C26_TimeoutReturns == (proc # None /\ proc[1].expired) ~> ReturnedWithMessage

(***************************************************************************)
(* The ignore sets of the lint wrapper from file to file.                  *)
(***************************************************************************)
\* what the configuration of the run gives for a file name: nothing when
\* there is no configuration
Configured(field, filename) ==
    IF lint[1].symbol_table = None THEN {}
    ELSE LET table == lint[1].symbol_table[1] IN
         UNION {table[k][field] : k \in matching(table, basename(filename))}

\* C27: when the checking of a file begins, the ignored symbols and the
\* ignored types are those the configuration gives for the name of the
\* file and no others: nothing a pyflakes:ignore_all directive of an
\* earlier file has added is still ignored.
C27_IgnoreSetsReset ==
    (lint # None /\ lint[1].pc = "report" /\ lint[1].msg = 1)
      => LET filename == lint[1].argv[lint[1].idx].filename IN
         /\ lint[1].symbols = Configured("ignore_symbols", filename)
         /\ lint[1].types = Configured("ignore_types", filename)

=============================================================================
